---------------------------- MODULE Spec2Model ----------------------------
(***************************************************************************)
(* DNDCrawler: the real-time synchronisation layer.                        *)
(*                                                                         *)
(*   - the WebSocket server (src/server/ws.js): connections, auth, rooms,  *)
(*     the per-room turn state, move / dm_drag relay, the chat router and  *)
(*     the position batcher;                                               *)
(*   - the client's TurnTracker (src/unnamed/part_005) and its wiring in   *)
(*     src/src/main.js.                                                    *)
(*                                                                         *)
(* JavaScript values are encoded as integers: a number is itself, and the  *)
(* values that are not numbers are the negative sentinels below.           *)
(***************************************************************************)
EXTENDS Integers, Sequences, FiniteSets, TLC

\* ------------------------------------------------------------------------
\* JavaScript values
\* ------------------------------------------------------------------------

\* null / undefined / a field that is missing from the message
Undef == -99
\* the boolean true: not null, not a number
JTrue == -98
\* a string that is not a number
JStr == -97
\* the boolean false
JFalse == -96

IsNumber(v) == v > -90

\* `v == null`
IsNullish(v) == v = Undef

\* ------------------------------------------------------------------------
\* Bounds of the model
\* ------------------------------------------------------------------------

\* connections the server accepts in one run
MaxConns == 2
\* ClientInfo objects alive at one time
MaxSessions == 3
\* chat rows inserted in one run
MaxMessages == 2

Conns == 1..MaxConns

\* ------------------------------------------------------------------------
\* The database (src/server/db.js): the rows ws.js reads
\* ------------------------------------------------------------------------

Users == {1, 2, 3}
Games == {1, 2}

\* game_players: user 1 created game 1 and is its DM; users 2 and 3 joined it
\* as players; user 3 created game 2 and is its DM.
Membership(gameId, userId) ==
    CASE gameId = 1 /\ userId = 1 -> "dm"
      [] gameId = 1 /\ userId = 2 -> "player"
      [] gameId = 1 /\ userId = 3 -> "player"
      [] gameId = 2 /\ userId = 3 -> "dm"
      [] OTHER -> "none"

\* characters: id 1 belongs to user 2 and id 2 to user 3, both in game 1.
CharIds == {1, 2}
CharOwner(ch) == IF ch = 1 THEN 2 ELSE 3
CharGame(ch) == 1

\* SELECT user_id FROM characters WHERE id = ?  (0: no such row)
LookupOwner(characterId) ==
    IF characterId \in CharIds THEN CharOwner(characterId) ELSE 0

\* ------------------------------------------------------------------------
\* Tokens (src/unnamed/part_001)
\* ------------------------------------------------------------------------

\* The token generateToken signs for user u.
TokenBase == 10
TokenOf(u) == TokenBase + u
\* A token whose signature is good and whose `exp` has passed.
ExpiredTokenOf(u) == 2 * TokenBase + u

\* verifyToken: the payload's id, or 0 for null (jwt.verify threw).
verifyToken(token) ==
    IF token - TokenBase \in Users THEN token - TokenBase ELSE 0

\* parseInt(msg.gameId, 10); 0 stands for NaN as well: both are falsy.
ParseGameId(v) == IF IsNumber(v) THEN v ELSE 0

\* ------------------------------------------------------------------------
\* State
\* ------------------------------------------------------------------------

VARIABLES
    serverUp,              \* FALSE once an uncaught exception ended the process
    connState,             \* per connection: "new", "open", "closing", "closed"
    closeCode,             \* the code the server passed to ws.close, 0 if none
    client,                \* the handler's `client`: a session id, or 0 for null
    authTimer,             \* "idle", "pending" or "off" (fired or cleared)
    sessions,              \* the ClientInfo objects that are still referenced
    rooms,                 \* Map<gameId, Set<ClientInfo>>
    roomTurnState,         \* Map<gameId, {enabled, order, activeIndex}>
    pendingPositionSaves,  \* Map<characterId, {x, y, angle}>
    dbChars,               \* characters.x, .y, .angle per row
    msgRowid,              \* messages: the last rowid AUTOINCREMENT gave
    sent,                  \* per connection: what the last step passed to ws.send
    inserted,              \* the rows the last step inserted into messages
    event,                 \* the last step: [type, conn, arg, ok]
    accepted               \* per character: its last update accepted since the last flush

srvVars == <<serverUp, connState, closeCode, client, authTimer, sessions, rooms,
             roomTurnState, pendingPositionSaves, dbChars, msgRowid, sent,
             inserted, event, accepted>>

\* The browsers: client k is the page of user k on connection k.
VARIABLES
    tracker,               \* per client: its TurnTracker {enabled, order, activeIndex, turnCounter, players}
    players,               \* per client: main.js `players`, the characters of the game
    dmToolsActionMode,     \* per client: DMTools.actionModeEnabled, the Action Mode checkbox
    wire,                  \* turn_update frames in flight: up to the server, down to each client
    sendSeq,               \* per connection: how many frames its client has passed to ws.send
    recvLog,               \* per connection: the frames the server passed to its ws.send, in order
    sock                   \* socket.js of one page: ws, connected, gameId, reconnectTimer, and its WebSocket objects

ordVars == <<sendSeq, recvLog>>
cliVars == <<tracker, players, dmToolsActionMode, wire, ordVars, sock>>

vars == <<srvVars, cliVars>>

\* The step just taken: the handler that ran, the connection it ran for, the
\* id it was about (a character, a recipient, a close code) and whether it
\* went through (ok) or dropped out early.
Ev(type, c, arg, ok) ==
    [type |-> type, conn |-> c, arg |-> arg, ok |-> ok, len |-> 0]
NoSends == [c \in Conns |-> <<>>]

\* rooms.get(gameId), the empty set when the key is absent
RoomOf(gameId) == IF gameId \in DOMAIN rooms THEN rooms[gameId] ELSE {}

\* ws.readyState === 1
IsOpen(c) == connState[c] = "open"

\* A function with key k set to v (Map.set).
MapSet(m, k, v) == [x \in DOMAIN m \cup {k} |-> IF x = k THEN v ELSE m[x]]
\* A function without key k (Map.delete).
MapDelete(m, k) == [x \in DOMAIN m \ {k} |-> m[x]]

Copies(m, n) == [i \in 1..n |-> m]

SrvInit ==
    /\ serverUp = TRUE
    /\ connState = [c \in Conns |-> "new"]
    /\ closeCode = [c \in Conns |-> 0]
    /\ client = [c \in Conns |-> 0]
    /\ authTimer = [c \in Conns |-> "idle"]
    /\ sessions = <<>>
    /\ rooms = <<>>
    /\ roomTurnState = <<>>
    /\ pendingPositionSaves = <<>>
    /\ dbChars = [ch \in CharIds |-> [x |-> 0, y |-> 0, angle |-> 0]]
    /\ msgRowid = 0
    /\ sent = NoSends
    /\ inserted = <<>>
    /\ event = Ev("init", 0, 0, TRUE)
    /\ accepted = <<>>

\* ------------------------------------------------------------------------
\* Connection life cycle
\* ------------------------------------------------------------------------

\* ws.close(code, reason): OPEN becomes CLOSING; a socket that is already
\* closing keeps its first code.
WsClose(c, code) ==
    /\ connState' = [connState EXCEPT ![c] = IF @ = "open" THEN "closing" ELSE @]
    /\ closeCode' = [closeCode EXCEPT ![c] = IF connState[c] = "open" THEN code ELSE @]

\* wss.on('connection'): a fresh closure with client = null and a 5 s timer.
\* Connections are numbered in the order they arrive.
Connection(c) ==
    /\ serverUp
    /\ connState[c] = "new"
    /\ \A d \in Conns : d < c => connState[d] # "new"
    /\ connState' = [connState EXCEPT ![c] = "open"]
    /\ authTimer' = [authTimer EXCEPT ![c] = "pending"]
    /\ sent' = NoSends
    /\ inserted' = <<>>
    /\ event' = Ev("connection", c, 0, TRUE)
    /\ UNCHANGED <<serverUp, closeCode, client, sessions, rooms, roomTurnState,
                   pendingPositionSaves, dbChars, msgRowid, accepted>>
    /\ UNCHANGED cliVars

\* The peer starts the closing handshake (or its socket drops): readyState
\* leaves OPEN; the 'close' event follows.
PeerClose(c) ==
    /\ serverUp
    /\ connState[c] = "open"
    /\ connState' = [connState EXCEPT ![c] = "closing"]
    /\ sent' = NoSends
    /\ inserted' = <<>>
    /\ event' = Ev("peer_close", c, 0, TRUE)
    /\ UNCHANGED <<serverUp, closeCode, client, authTimer, sessions, rooms,
                   roomTurnState, pendingPositionSaves, dbChars, msgRowid, accepted>>
    /\ UNCHANGED cliVars

\* (variant: the callback does not close the socket)
AuthTimeout_NoClose(c) ==
    /\ serverUp
    /\ authTimer[c] = "pending"
    /\ authTimer' = [authTimer EXCEPT ![c] = "off"]
    /\ sent' = NoSends
    /\ inserted' = <<>>
    /\ event' = Ev("timeout", c, 0, client[c] = 0)
    /\ UNCHANGED <<serverUp, connState, closeCode, client, sessions, rooms,
                   roomTurnState, pendingPositionSaves, dbChars, msgRowid, accepted>>
    /\ UNCHANGED cliVars

\* The authTimeout callback.
AuthTimeout(c) ==
    /\ serverUp
    /\ authTimer[c] = "pending"
    /\ authTimer' = [authTimer EXCEPT ![c] = "off"]
    /\ IF client[c] = 0
         THEN WsClose(c, 4001)
         ELSE UNCHANGED <<connState, closeCode>>
    /\ sent' = NoSends
    /\ inserted' = <<>>
    /\ event' = Ev("timeout", c, 0, client[c] = 0)
    /\ UNCHANGED <<serverUp, client, sessions, rooms, roomTurnState,
                   pendingPositionSaves, dbChars, msgRowid, accepted>>
    /\ UNCHANGED cliVars

\* room.delete(client), and the room and its turn state with the last one.
RoomsAfterLeave(sid) ==
    LET g == sessions[sid].gameId IN
    IF g \notin DOMAIN rooms THEN rooms
    ELSE IF rooms[g] \ {sid} = {} THEN MapDelete(rooms, g)
    ELSE [rooms EXCEPT ![g] = @ \ {sid}]

\* (variant: the turn state is kept when the room goes)
TurnStateAfterLeave_Keep(sid) == roomTurnState

TurnStateAfterLeave(sid) ==
    LET g == sessions[sid].gameId IN
    IF g \in DOMAIN rooms /\ rooms[g] \ {sid} = {}
      THEN MapDelete(roomTurnState, g)
      ELSE roomTurnState

\* ws.on('close'). The handler's closure is unreachable afterwards: its
\* `client` object is dropped from the model with it.
CloseEvent(c) ==
    /\ serverUp
    /\ connState[c] = "closing"
    /\ connState' = [connState EXCEPT ![c] = "closed"]
    /\ authTimer' = [authTimer EXCEPT ![c] = "off"]
    /\ IF client[c] # 0
         THEN /\ rooms' = RoomsAfterLeave(client[c])
              /\ roomTurnState' = TurnStateAfterLeave(client[c])
              /\ sessions' = MapDelete(sessions, client[c])
         ELSE UNCHANGED <<rooms, roomTurnState, sessions>>
    /\ client' = [client EXCEPT ![c] = 0]
    /\ sent' = NoSends
    /\ inserted' = <<>>
    /\ event' = Ev("close", c, 0, TRUE)
    /\ UNCHANGED <<serverUp, closeCode, pendingPositionSaves, dbChars, msgRowid,
                   accepted>>
    /\ UNCHANGED cliVars

\* ------------------------------------------------------------------------
\* ws.on('message'): one action per message type
\* ------------------------------------------------------------------------

\* The 'message' event is emitted while the socket is OPEN, and still after
\* the server itself called ws.close (frames the peer had already sent).
Receives(c) ==
    /\ serverUp
    /\ connState[c] \in {"open", "closing"}
    /\ connState[c] = "closing" => closeCode[c] # 0

\* for (const client of room) if (client !== sender && readyState === 1) send
\* One copy per ClientInfo of the room that is not the sender.
broadcastToOthers(sender, message) ==
    [c \in Conns |->
        Copies(message,
               Cardinality({s \in RoomOf(sessions[sender].gameId) :
                              s # sender /\ sessions[s].conn = c /\ IsOpen(c)}))]

\* for (const client of room) if (readyState === 1) send
broadcastToAll(gameId, message) ==
    [c \in Conns |->
        Copies(message,
               Cardinality({s \in RoomOf(gameId) :
                              sessions[s].conn = c /\ IsOpen(c)}))]

\* (variant: the message is dropped and the socket is left alone)
RequireClient_Ignore(c) == UNCHANGED <<connState, closeCode>>

\* What every branch but auth does first: `if (!client) ws.close(4005)`.
RequireClient(c) ==
    IF client[c] = 0
      THEN WsClose(c, 4005)
      ELSE UNCHANGED <<connState, closeCode>>

\* --- JSON.parse ---------------------------------------------------------

\* A frame as it arrives: its text is JSON for the value `value`, or it is no
\* JSON at all.
RawJson(m) == [json |-> TRUE, value |-> m]
RawText == [json |-> FALSE, value |-> Undef]

\* JSON.parse(raw) throws a SyntaxError
ParseThrows(raw) == ~raw.json

\* (variant: the frame counts as the connection's first message)
HandleNonJson_ClearsTimer(c) ==
    /\ Receives(c)
    /\ authTimer' = [authTimer EXCEPT ![c] = "off"]
    /\ sent' = NoSends
    /\ inserted' = <<>>
    /\ event' = Ev("non_json", c, 0, FALSE)
    /\ UNCHANGED <<serverUp, connState, closeCode, client, sessions, rooms,
                   roomTurnState, pendingPositionSaves, dbChars, msgRowid, accepted>>
    /\ UNCHANGED cliVars

\* `catch { return; }`: the handler is left before it reads msg
HandleNonJson(c) ==
    /\ Receives(c)
    /\ sent' = NoSends
    /\ inserted' = <<>>
    /\ event' = Ev("non_json", c, 0, FALSE)
    /\ UNCHANGED <<serverUp, connState, closeCode, client, authTimer, sessions,
                   rooms, roomTurnState, pendingPositionSaves, dbChars, msgRowid,
                   accepted>>
    /\ UNCHANGED cliVars

\* --- auth ---------------------------------------------------------------

\* (variant: every rejected auth message is closed with the token code)
AuthFailure_OneCode(m) ==
    IF \/ verifyToken(m.token) = 0
       \/ ParseGameId(m.gameId) = 0
       \/ Membership(ParseGameId(m.gameId), verifyToken(m.token)) = "none"
      THEN 4002
      ELSE 0

\* 0 when the auth message is accepted, else the close code.
AuthFailure(m) ==
    LET userId == verifyToken(m.token)
        gameId == ParseGameId(m.gameId)
    IN  IF userId = 0 THEN 4002
        ELSE IF gameId = 0 THEN 4003
        ELSE IF Membership(gameId, userId) = "none" THEN 4004
        ELSE 0

\* rooms after `rooms.get(gameId).add(client)`, the room created when absent
RoomsAfterJoin(gameId, sid) == MapSet(rooms, gameId, RoomOf(gameId) \cup {sid})

\* roomTurnState.get(gameId) || null, as a sequence of at most one element
TurnSnapshot(gameId) ==
    IF gameId \in DOMAIN roomTurnState THEN <<roomTurnState[gameId]>> ELSE <<>>

\* The identity of the object `client = { ... }` creates
NewSid == CHOOSE n \in 1..MaxSessions :
              /\ n \notin DOMAIN sessions
              /\ \A k \in 1..MaxSessions : k < n => k \in DOMAIN sessions

\* The auth branch, as far as the server goes
AuthBranch(c, m) ==
    /\ Receives(c)
    /\ m.type = "auth"
    /\ authTimer' = [authTimer EXCEPT ![c] = "off"]
    /\ LET code == AuthFailure(m)
           userId == verifyToken(m.token)
           gameId == ParseGameId(m.gameId)
           sid == NewSid
       IN  IF code # 0
             THEN /\ WsClose(c, code)
                  /\ sent' = NoSends
                  /\ UNCHANGED <<client, sessions, rooms>>
             ELSE /\ DOMAIN sessions # 1..MaxSessions
                  /\ sessions' = MapSet(sessions, sid,
                        [conn |-> c, userId |-> userId, gameId |-> gameId,
                         role |-> Membership(gameId, userId)])
                  /\ client' = [client EXCEPT ![c] = sid]
                  /\ rooms' = RoomsAfterJoin(gameId, sid)
                  /\ sent' = [NoSends EXCEPT ![c] =
                        IF IsOpen(c)
                          THEN <<[type |-> "auth_ok", turnState |-> TurnSnapshot(gameId)]>>
                          ELSE <<>>]
                  /\ UNCHANGED <<connState, closeCode>>
    /\ inserted' = <<>>
    /\ event' = Ev("auth", c, AuthFailure(m), AuthFailure(m) = 0)
    /\ UNCHANGED <<serverUp, roomTurnState, pendingPositionSaves, dbChars,
                   msgRowid, accepted>>

HandleAuth(c, m) == AuthBranch(c, m) /\ UNCHANGED cliVars

\* --- move ---------------------------------------------------------------

\* (variant: the ownership lookup is left out)
MoveAccepted_NoOwnerCheck(sid, m) ==
    ~(IsNullish(m.characterId) \/ IsNullish(m.x) \/ IsNullish(m.y) \/ IsNullish(m.angle))

\* (variant: angle is not among the required fields)
MoveAccepted_NoAngleCheck(sid, m) ==
    /\ ~(IsNullish(m.characterId) \/ IsNullish(m.x) \/ IsNullish(m.y))
    /\ \/ sessions[sid].role = "dm"
       \/ LookupOwner(m.characterId) = sessions[sid].userId

\* handleMove goes on to broadcast and enqueue
MoveAccepted(sid, m) ==
    /\ ~(IsNullish(m.characterId) \/ IsNullish(m.x) \/ IsNullish(m.y) \/ IsNullish(m.angle))
    /\ \/ sessions[sid].role = "dm"
       \/ LookupOwner(m.characterId) = sessions[sid].userId

\* pendingPositionSaves.set(characterId, pos)
PendingSet(characterId, pos) == MapSet(pendingPositionSaves, characterId, pos)

MoveBranch(c, m) ==
    /\ Receives(c)
    /\ m.type = "move"
    /\ RequireClient(c)
    /\ LET ok == client[c] # 0 /\ MoveAccepted(client[c], m)
           pos == [x |-> m.x, y |-> m.y, angle |-> m.angle]
       IN  /\ sent' = IF ok
                        THEN broadcastToOthers(client[c],
                               [type |-> "move", characterId |-> m.characterId,
                                x |-> m.x, y |-> m.y, angle |-> m.angle])
                        ELSE NoSends
           /\ pendingPositionSaves' =
                 IF ok THEN PendingSet(m.characterId, pos) ELSE pendingPositionSaves
           /\ accepted' =
                 IF ok THEN MapSet(accepted, m.characterId, pos)
                       ELSE accepted
    /\ inserted' = <<>>
    /\ event' = Ev("move", c, m.characterId, client[c] # 0 /\ MoveAccepted(client[c], m))
    /\ UNCHANGED <<serverUp, client, authTimer, sessions, rooms, roomTurnState,
                   dbChars, msgRowid>>

HandleMove(c, m) == MoveBranch(c, m) /\ UNCHANGED cliVars

\* --- dm_drag ------------------------------------------------------------

\* (variant: the role is not looked at)
DragAccepted_AnyRole(sid, m) ==
    ~(IsNullish(m.characterId) \/ IsNullish(m.x) \/ IsNullish(m.y))

DragAccepted(sid, m) ==
    /\ sessions[sid].role = "dm"
    /\ ~(IsNullish(m.characterId) \/ IsNullish(m.x) \/ IsNullish(m.y))

HandleDmDrag(c, m) ==
    /\ Receives(c)
    /\ m.type = "dm_drag"
    /\ RequireClient(c)
    /\ LET ok == client[c] # 0 /\ DragAccepted(client[c], m)
           pos == [x |-> m.x, y |-> m.y, angle |-> Undef]
       IN  /\ sent' = IF ok
                        THEN broadcastToOthers(client[c],
                               [type |-> "dm_drag", characterId |-> m.characterId,
                                x |-> m.x, y |-> m.y])
                        ELSE NoSends
           /\ pendingPositionSaves' =
                 IF ok THEN PendingSet(m.characterId, pos) ELSE pendingPositionSaves
           /\ accepted' =
                 IF ok THEN MapSet(accepted, m.characterId, pos)
                       ELSE accepted
    /\ inserted' = <<>>
    /\ event' = Ev("dm_drag", c, m.characterId, client[c] # 0 /\ DragAccepted(client[c], m))
    /\ UNCHANGED <<serverUp, client, authTimer, sessions, rooms, roomTurnState,
                   dbChars, msgRowid>>
    /\ UNCHANGED cliVars

\* --- character_added / character_removed --------------------------------

\* Both relay the one field they carry (character, characterId) to the others.
HandleRoster(c, m) ==
    /\ Receives(c)
    /\ m.type \in {"character_added", "character_removed"}
    /\ RequireClient(c)
    /\ sent' = IF client[c] # 0
                 THEN broadcastToOthers(client[c], m)
                 ELSE NoSends
    /\ inserted' = <<>>
    /\ event' = Ev(m.type, c, 0, client[c] # 0)
    /\ UNCHANGED <<serverUp, client, authTimer, sessions, rooms, roomTurnState,
                   pendingPositionSaves, dbChars, msgRowid, accepted>>
    /\ UNCHANGED cliVars


\* --- turn_update --------------------------------------------------------

\* A value that is not an array (Array.isArray is false)
NotArray == <<Undef>>
IsArray(v) == v # NotArray

\* !!v
Truthy(v) == v \notin {Undef, 0, JFalse}

\* (variant: the index of the message is dropped)
TurnStateOf_NoIndex(m) ==
    [enabled |-> Truthy(m.enabled),
     order |-> IF IsArray(m.order) THEN m.order ELSE <<>>,
     activeIndex |-> -1]

\* The state the handler builds from the message.
TurnStateOf(m) ==
    [enabled |-> Truthy(m.enabled),
     order |-> IF IsArray(m.order) THEN m.order ELSE <<>>,
     activeIndex |-> IF IsNumber(m.activeIndex) THEN m.activeIndex ELSE -1]

\* { type: 'turn_update', ...turnState } and sortedPlayerOrder when an array
\* (NotArray: the field is absent)
TurnBroadcast(m) ==
    [type |-> "turn_update",
     enabled |-> TurnStateOf(m).enabled,
     order |-> TurnStateOf(m).order,
     activeIndex |-> TurnStateOf(m).activeIndex,
     sortedPlayerOrder |-> m.sortedPlayerOrder]

\* (variant: the owner of the character is not looked up)
RollAccepted_AnyPlayer(sid, m) == ~IsNullish(m.characterId)

\* (variant: the role is not looked at)
IsDM_AnyRole(c) == client[c] # 0

IsDM(c) == client[c] # 0 /\ sessions[client[c]].role = "dm"

\* The turn_update branch, as far as the server goes
TurnUpdateBranch(c, m) ==
    /\ Receives(c)
    /\ m.type = "turn_update"
    /\ RequireClient(c)
    /\ roomTurnState' =
          IF IsDM(c)
            THEN MapSet(roomTurnState, sessions[client[c]].gameId, TurnStateOf(m))
            ELSE roomTurnState
    /\ sent' = IF IsDM(c)
                 THEN broadcastToAll(sessions[client[c]].gameId, TurnBroadcast(m))
                 ELSE NoSends
    /\ inserted' = <<>>
    /\ event' = Ev("turn_update", c, 0, IsDM(c))
    /\ UNCHANGED <<serverUp, client, authTimer, sessions, rooms,
                   pendingPositionSaves, dbChars, msgRowid, accepted>>

HandleTurnUpdate(c, m) == TurnUpdateBranch(c, m) /\ UNCHANGED cliVars

\* --- initiative_roll ----------------------------------------------------

RollAccepted(sid, m) ==
    /\ ~IsNullish(m.characterId)
    /\ \/ sessions[sid].role = "dm"
       \/ LookupOwner(m.characterId) = sessions[sid].userId

\* The initiative_roll branch, as far as the server goes
InitiativeRollBranch(c, m) ==
    /\ Receives(c)
    /\ m.type = "initiative_roll"
    /\ RequireClient(c)
    /\ sent' = IF client[c] # 0 /\ RollAccepted(client[c], m)
                 THEN broadcastToAll(sessions[client[c]].gameId,
                        [type |-> "initiative_roll",
                         characterId |-> m.characterId,
                         roll |-> IF IsNumber(m.roll) THEN m.roll ELSE Undef,
                         userId |-> sessions[client[c]].userId])
                 ELSE NoSends
    /\ inserted' = <<>>
    /\ event' = Ev("initiative_roll", c, m.characterId, client[c] # 0 /\ RollAccepted(client[c], m))
    /\ UNCHANGED <<serverUp, client, authTimer, sessions, rooms, roomTurnState,
                   pendingPositionSaves, dbChars, msgRowid, accepted>>

HandleInitiativeRoll(c, m) == InitiativeRollBranch(c, m) /\ UNCHANGED cliVars

\* --- initiative_sort ----------------------------------------------------

\* The initiative_sort branch, as far as the server goes
InitiativeSortBranch(c, m) ==
    /\ Receives(c)
    /\ m.type = "initiative_sort"
    /\ RequireClient(c)
    /\ sent' = IF IsDM(c)
                 THEN broadcastToAll(sessions[client[c]].gameId,
                        [type |-> "initiative_sort",
                         sortedCharIds |-> IF IsArray(m.sortedCharIds)
                                             THEN m.sortedCharIds ELSE <<>>])
                 ELSE NoSends
    /\ inserted' = <<>>
    /\ event' = Ev("initiative_sort", c, 0, IsDM(c))
    /\ UNCHANGED <<serverUp, client, authTimer, sessions, rooms, roomTurnState,
                   pendingPositionSaves, dbChars, msgRowid, accepted>>

HandleInitiativeSort(c, m) == InitiativeSortBranch(c, m) /\ UNCHANGED cliVars

\* --- chat_message -------------------------------------------------------

\* The content limit of handleChatMessage
MaxChatLen == 500

\* A string, as far as trim and length see it: `lead` whitespace characters,
\* then `core` characters that start and end with a non-whitespace one (0: the
\* string is all whitespace), then `trail` whitespace characters. A content
\* that is not a string has str = FALSE.
StrLen(s) == s.lead + s.core + s.trail
EmptyString == [str |-> TRUE, lead |-> 0, core |-> 0, trail |-> 0]

\* String.prototype.trim
Trim(s) == [s EXCEPT !.lead = 0, !.trail = 0]

\* typeof msg.content === 'string' ? msg.content.trim() : ''
ChatContent(m) == IF m.content.str THEN Trim(m.content) ELSE EmptyString

\* (variant: the length limit is left out)
ChatValid_NoLimit(m) == StrLen(ChatContent(m)) # 0

\* `!content || content.length > 500` is false
ChatValid(m) ==
    /\ StrLen(ChatContent(m)) # 0
    /\ ~(StrLen(ChatContent(m)) > MaxChatLen)

\* typeof msg.recipientId === 'number' ? msg.recipientId : null
ChatRecipient(m) == IF IsNumber(m.recipientId) THEN m.recipientId ELSE Undef

\* msg.roll, kept when it has the four fields with their types
ChatRoll(m) == IF m.roll = "valid" THEN "valid" ELSE "null"

\* (variant: the outgoing message does not carry the row's id)
ChatOut_NoId(sid, m, id) ==
    [type |-> "chat_message",
     id |-> 0,
     senderId |-> sessions[sid].userId,
     recipientId |-> ChatRecipient(m),
     content |-> ChatContent(m),
     roll |-> ChatRoll(m)]

\* outMsg
ChatOut(sid, m, id) ==
    [type |-> "chat_message",
     id |-> id,
     senderId |-> sessions[sid].userId,
     recipientId |-> ChatRecipient(m),
     content |-> ChatContent(m),
     roll |-> ChatRoll(m)]

\* The direct route: the sessions of the room whose user is the sender or the
\* recipient.
sendDirect(sender, recipientId, message) ==
    [c \in Conns |->
        Copies(message,
               Cardinality({s \in RoomOf(sessions[sender].gameId) :
                              /\ sessions[s].conn = c
                              /\ \/ sessions[s].userId = sessions[sender].userId
                                 \/ sessions[s].userId = recipientId
                              /\ IsOpen(c)}))]

ChatBranch(c, m) ==
    /\ Receives(c)
    /\ m.type = "chat_message"
    /\ RequireClient(c)
    /\ LET ok == client[c] # 0 /\ ChatValid(m)
           sid == client[c]
           id == msgRowid + 1
       IN  /\ ok => msgRowid < MaxMessages
           /\ msgRowid' = IF ok THEN id ELSE msgRowid
           /\ inserted' =
                 IF ok
                   THEN <<[id |-> id,
                           game_id |-> sessions[sid].gameId,
                           sender_id |-> sessions[sid].userId,
                           recipient_id |-> ChatRecipient(m),
                           content |-> ChatContent(m)]>>
                   ELSE <<>>
           /\ sent' =
                 IF ~ok THEN NoSends
                 ELSE IF ChatRecipient(m) = Undef
                   THEN broadcastToAll(sessions[sid].gameId, ChatOut(sid, m, id))
                   ELSE sendDirect(sid, ChatRecipient(m), ChatOut(sid, m, id))
    /\ event' = [Ev("chat_message", c, ChatRecipient(m), client[c] # 0 /\ ChatValid(m))
                    EXCEPT !.len = StrLen(ChatContent(m))]
    /\ UNCHANGED <<serverUp, client, authTimer, sessions, rooms, roomTurnState,
                   pendingPositionSaves, dbChars, accepted>>

HandleChatMessage(c, m) == ChatBranch(c, m) /\ UNCHANGED cliVars

\* ------------------------------------------------------------------------
\* The position batcher
\* ------------------------------------------------------------------------

\* better-sqlite3 binds numbers, strings, bigints, buffers and null; any other
\* value makes Statement.run throw a TypeError.
Bindable(v) == v \notin {JTrue, JFalse}

\* Statement.run throws on this entry
EntryThrows(pos) ==
    \/ ~Bindable(pos.x)
    \/ ~Bindable(pos.y)
    \/ ~IsNullish(pos.angle) /\ ~Bindable(pos.angle)

\* UPDATE characters SET x, y[, angle] WHERE id = charId, for every entry
RowAfterUpdate(row, pos) ==
    IF ~IsNullish(pos.angle)
      THEN [x |-> pos.x, y |-> pos.y, angle |-> pos.angle]
      ELSE [x |-> pos.x, y |-> pos.y, angle |-> row.angle]

saveMany(entries) ==
    [ch \in CharIds |->
        IF ch \in DOMAIN entries
          THEN RowAfterUpdate(dbChars[ch], entries[ch])
          ELSE dbChars[ch]]

\* The entries whose statement runs without throwing
Runnable(entries) ==
    [ch \in {k \in DOMAIN entries : ~EntryThrows(entries[k])} |-> entries[ch]]

\* (variant: the updates made before the exception stay in the table)
transaction_NoRollback(before, during, threw) == during

\* db.transaction(fn): COMMIT when fn returns, ROLLBACK when it throws
transaction(before, during, threw) == IF threw THEN before ELSE during

\* The setInterval callback. A throwing run rolls the transaction back and
\* leaves flushPositionSaves before clear(); nothing catches it, so the
\* process ends.
FlushThrows ==
    \E ch \in DOMAIN pendingPositionSaves : EntryThrows(pendingPositionSaves[ch])

flushPositionSaves ==
    /\ serverUp
    /\ IF DOMAIN pendingPositionSaves = {}
         THEN UNCHANGED <<serverUp, dbChars, pendingPositionSaves>>
         ELSE /\ dbChars' = transaction(dbChars,
                                        saveMany(Runnable(pendingPositionSaves)),
                                        FlushThrows)
              /\ pendingPositionSaves' =
                    IF FlushThrows THEN pendingPositionSaves ELSE <<>>
              /\ serverUp' = ~FlushThrows
    /\ accepted' = IF FlushThrows THEN accepted ELSE <<>>
    /\ sent' = NoSends
    /\ inserted' = <<>>
    /\ event' = Ev("flush", 0, 0, ~FlushThrows)
    /\ UNCHANGED <<connState, closeCode, client, authTimer, sessions, rooms,
                   roomTurnState, msgRowid>>
    /\ UNCHANGED cliVars


\* ------------------------------------------------------------------------
\* The messages the specifications draw from
\* ------------------------------------------------------------------------

AuthMsgs(tokens, gameIds) ==
    {[type |-> "auth", token |-> t, gameId |-> g] : t \in tokens, g \in gameIds}

ValidTokens == {TokenOf(u) : u \in Users}
AnyToken == ValidTokens \cup {Undef, JStr, ExpiredTokenOf(1)}
\* game ids: the two games, one that does not exist, a missing field
AnyGameId == Games \cup {3, Undef}

\* A well-formed move
MoveMsg(ch, x, y, a) ==
    [type |-> "move", characterId |-> ch, x |-> x, y |-> y, angle |-> a]

\* Moves for a character and for an id with no row, at two places, and moves
\* with one field missing.
MoveMsgs ==
    {MoveMsg(ch, x, 3, 5) : ch \in {1, 9}, x \in {1, 2}}
      \cup {MoveMsg(Undef, 1, 3, 5), MoveMsg(1, Undef, 3, 5),
            MoveMsg(1, 1, Undef, 5), MoveMsg(1, 1, 3, Undef)}

\* Moves the batcher is fed with: character 1 at two places, an id with no
\* row, and an x that is the JSON value true.
FlushMoveMsgs ==
    {MoveMsg(1, 1, 3, 5), MoveMsg(1, 2, 3, 5), MoveMsg(9, 1, 3, 5),
     MoveMsg(1, JTrue, 3, 5)}

DragMsg(ch, x, y) == [type |-> "dm_drag", characterId |-> ch, x |-> x, y |-> y]

DragMsgs ==
    {DragMsg(ch, x, 4) : ch \in {1, 2}, x \in {1, 2}}
      \cup {DragMsg(Undef, 1, 4), DragMsg(1, Undef, 4), DragMsg(1, 1, Undef)}

\* Drags the batcher is fed with: both characters, and one without its x.
FlushDragMsgs == {DragMsg(2, 1, 4), DragMsg(1, 2, 4), DragMsg(1, Undef, 4)}

TurnMsg(enabled, order, activeIndex, sorted) ==
    [type |-> "turn_update", enabled |-> enabled, order |-> order,
     activeIndex |-> activeIndex, sortedPlayerOrder |-> sorted]

\* What a DM's client sends (action mode on, turns started, a sort, action
\* mode off), an index outside the order, and a message without its fields.
TurnMsgs ==
    {TurnMsg(JTrue, <<>>, -1, NotArray),
     TurnMsg(JTrue, <<1, 2>>, 0, NotArray),
     TurnMsg(JTrue, <<1, 2>>, 1, NotArray),
     TurnMsg(JTrue, <<>>, -1, <<2, 1>>),
     TurnMsg(JFalse, <<>>, -1, NotArray),
     TurnMsg(JTrue, <<1, 2>>, 5, NotArray),
     TurnMsg(Undef, NotArray, Undef, NotArray)}

SortMsgs ==
    {[type |-> "initiative_sort", sortedCharIds |-> ids] : ids \in {<<2, 1>>, NotArray}}

Str(lead, core, trail) == [str |-> TRUE, lead |-> lead, core |-> core, trail |-> trail]
NotString == [str |-> FALSE, lead |-> 0, core |-> 0, trail |-> 0]

ChatMsg(content, recipientId, roll) ==
    [type |-> "chat_message", content |-> content, recipientId |-> recipientId,
     roll |-> roll]

\* Group messages with a short text, no text, whitespace only, 500 characters
\* followed by a space, 501 characters and a content that is not a string;
\* direct messages to user 3, and a recipientId that is not a number.
ChatMsgs ==
    {ChatMsg(t, Undef, "none") :
        t \in {Str(0, 3, 0), EmptyString, Str(1, 0, 1), Str(0, MaxChatLen, 1),
               Str(0, MaxChatLen + 1, 0), NotString}}
      \cup {ChatMsg(Str(0, 3, 0), 3, "valid"), ChatMsg(Str(0, 3, 0), JStr, "none")}

\* ------------------------------------------------------------------------
\* The clients: TurnTracker, and what main.js and socket.js wire to it
\* ------------------------------------------------------------------------

\* Frames in flight per direction and per client (a cap of the model)
MaxInFlight == 1
\* Rounds the turn counter counts (a cap of the model)
MaxTurnCounter == 2

\* currentRole: the role the game's state gives the user of client k
ClientRole(k) == Membership(1, k)

\* state.characters of game 1, in id order
InitialPlayers == <<1, 2>>

Range(s) == {s[i] : i \in DOMAIN s}
Max(a, b) == IF a >= b THEN a ELSE b

\* The sequence without the element at index i, and with v put at index i
\* (indices from 0, as Array.prototype.splice takes them).
RemoveAt(s, i) == SubSeq(s, 1, i) \o SubSeq(s, i + 2, Len(s))
InsertAt(s, i, v) == SubSeq(s, 1, i) \o <<v>> \o SubSeq(s, i + 1, Len(s))

\* new TurnTracker(container, players, ...)
NewTracker(ps) ==
    [enabled |-> FALSE, order |-> <<>>, activeIndex |-> -1, turnCounter |-> 0,
     players |-> ps, initiativeRolls |-> <<>>]

\* initiativeRolls without the characters that are not in the list
RollsOf(rolls, ps) == [ch \in DOMAIN rolls \cap Range(ps) |-> rolls[ch]]

\* TurnTracker.setPlayers
setPlayers(t, ps) ==
    LET kept == SelectSeq(t.order, LAMBDA id : id \in Range(ps))
    IN  IF Len(t.order) > 0
          THEN [t EXCEPT !.players = ps,
                         !.order = kept,
                         !.activeIndex = IF t.activeIndex >= Len(kept)
                                           THEN Max(0, Len(kept) - 1)
                                           ELSE t.activeIndex,
                         !.initiativeRolls = RollsOf(@, ps)]
          ELSE [t EXCEPT !.players = ps, !.initiativeRolls = RollsOf(@, ps)]

\* TurnTracker.setInitiativeRoll: a roll that is null or absent is deleted
setInitiativeRoll(t, characterId, roll) ==
    [t EXCEPT !.initiativeRolls =
        IF IsNullish(roll) THEN MapDelete(@, characterId)
                           ELSE MapSet(@, characterId, roll)]

\* TurnTracker.clearInitiativeRolls
clearInitiativeRolls(t) == [t EXCEPT !.initiativeRolls = <<>>]

\* TurnTracker.applySortOrder: the players the list names, in its order,
\* then the others
applySortOrder(ps, sortedCharIds) ==
    IF Len(sortedCharIds) = 0 \/ Len(ps) = 0
      THEN ps
      ELSE SelectSeq(sortedCharIds, LAMBDA id : id \in Range(ps))
             \o SelectSeq(ps, LAMBDA id : id \notin Range(sortedCharIds))

\* TurnTracker.setTurnState
setTurnState(t, state) ==
    LET ps == IF IsArray(state.sortedPlayerOrder) /\ Len(state.sortedPlayerOrder) > 0
                THEN applySortOrder(t.players, state.sortedPlayerOrder)
                ELSE t.players
    IN  IF state.enabled
          THEN [t EXCEPT !.enabled = TRUE,
                         !.order = state.order,
                         !.activeIndex = IF IsNumber(state.activeIndex)
                                           THEN state.activeIndex ELSE -1,
                         !.players = ps]
          ELSE [enabled |-> FALSE, order |-> <<>>, activeIndex |-> -1,
                turnCounter |-> 0, players |-> ps,
                initiativeRolls |-> t.initiativeRolls]

\* TurnTracker._startTurns
startTurns(t) ==
    [t EXCEPT !.order = t.players, !.activeIndex = 0, !.turnCounter = 0]

\* (variant: the wrap to the first index does not count a round)
advanceTurn_NoCount(t, direction) ==
    IF Len(t.order) = 0 THEN t
    ELSE IF t.activeIndex + direction >= Len(t.order)
      THEN [t EXCEPT !.activeIndex = 0]
    ELSE IF t.activeIndex + direction < 0
      THEN IF t.turnCounter > 0
             THEN [t EXCEPT !.turnCounter = @ - 1, !.activeIndex = Len(t.order) - 1]
             ELSE [t EXCEPT !.activeIndex = 0]
    ELSE [t EXCEPT !.activeIndex = @ + direction]

\* (variant: stepping back from the first index always goes to the last one)
advanceTurn_AlwaysWrap(t, direction) ==
    IF Len(t.order) = 0 THEN t
    ELSE IF t.activeIndex + direction >= Len(t.order)
      THEN [t EXCEPT !.activeIndex = 0, !.turnCounter = @ + 1]
    ELSE IF t.activeIndex + direction < 0
      THEN [t EXCEPT !.turnCounter = Max(0, @ - 1), !.activeIndex = Len(t.order) - 1]
    ELSE [t EXCEPT !.activeIndex = @ + direction]

\* TurnTracker._advanceTurn
advanceTurn(t, direction) ==
    IF Len(t.order) = 0 THEN t
    ELSE IF t.activeIndex + direction >= Len(t.order)
      THEN [t EXCEPT !.activeIndex = 0, !.turnCounter = @ + 1]
    ELSE IF t.activeIndex + direction < 0
      THEN IF t.turnCounter > 0
             THEN [t EXCEPT !.turnCounter = @ - 1, !.activeIndex = Len(t.order) - 1]
             ELSE [t EXCEPT !.activeIndex = 0]
    ELSE [t EXCEPT !.activeIndex = @ + direction]

\* (variant: activeIndex is left where it was)
reorder_KeepIndex(t, fromIdx, toIdx) ==
    IF Len(t.order) = 0
      THEN [t EXCEPT !.players = InsertAt(RemoveAt(@, fromIdx), toIdx, @[fromIdx + 1])]
      ELSE [t EXCEPT
              !.order = InsertAt(RemoveAt(@, fromIdx), toIdx, @[fromIdx + 1])]

\* TurnTracker._reorder
reorder(t, fromIdx, toIdx) ==
    IF Len(t.order) = 0
      THEN [t EXCEPT !.players = InsertAt(RemoveAt(@, fromIdx), toIdx, @[fromIdx + 1])]
      ELSE [t EXCEPT
              !.order = InsertAt(RemoveAt(@, fromIdx), toIdx, @[fromIdx + 1]),
              !.activeIndex =
                 IF fromIdx = @ THEN toIdx
                 ELSE IF fromIdx < @ /\ toIdx >= @ THEN @ - 1
                 ELSE IF fromIdx > @ /\ toIdx <= @ THEN @ + 1
                 ELSE @]

\* TurnTracker._endActionMode
endActionMode(t) ==
    [t EXCEPT !.order = <<>>, !.activeIndex = -1, !.turnCounter = 0]

\* initiativeRolls.get(characterId) ?? -1
RollOr(rolls, characterId) ==
    IF characterId \in DOMAIN rolls /\ ~IsNullish(rolls[characterId])
      THEN rolls[characterId]
      ELSE -1

\* TurnTracker._hasAnyRolls
hasAnyRolls(t) ==
    \E ch \in DOMAIN t.initiativeRolls : ~IsNullish(t.initiativeRolls[ch])

\* players.sort((a, b) => rollB - rollA): the higher roll first, and players
\* the comparison calls equal in the order they were in
RECURSIVE SortedByRoll(_, _)
SortedByRoll(rolls, ps) ==
    IF Len(ps) = 0 THEN <<>>
    ELSE LET last == ps[Len(ps)]
             rest == SortedByRoll(rolls, SubSeq(ps, 1, Len(ps) - 1))
         IN  SelectSeq(rest, LAMBDA id : RollOr(rolls, id) >= RollOr(rolls, last))
               \o <<last>>
               \o SelectSeq(rest, LAMBDA id : RollOr(rolls, id) < RollOr(rolls, last))

\* TurnTracker._sortByInitiative, as far as the tracker goes
sortByInitiative(t) == [t EXCEPT !.players = SortedByRoll(t.initiativeRolls, @)]

\* What _sortByInitiative hands to onTurnChange
SortedMsg(t) == TurnMsg(JTrue, <<>>, -1, t.players)

\* What _emitChange hands to onTurnChange
emitChange(t) == TurnMsg(JTrue, t.order, t.activeIndex, NotArray)

\* { enabled: false, order: [], activeIndex: -1 }
DisabledMsg == TurnMsg(JFalse, <<>>, -1, NotArray)

\* The items _render lists, which _attachEvents makes draggable
RenderedItems(t) ==
    IF Len(t.order) = 0
      THEN Len(t.players)
      ELSE Len(SelectSeq(t.order, LAMBDA id : id \in Range(t.players)))

\* socket.js: `connected` of client k
connected(k) == IsOpen(k) /\ client[k] # 0

\* socket.sendTurnUpdate
sendTurnUpdate(k, m) ==
    wire' = IF connected(k)
              THEN [wire EXCEPT !.up = Append(@, [from |-> k, msg |-> m])]
              ELSE wire

\* A step of a client: the server does not move.
ServerIdle ==
    /\ sent' = NoSends
    /\ inserted' = <<>>
    /\ UNCHANGED <<serverUp, connState, closeCode, client, authTimer, sessions,
                   rooms, roomTurnState, pendingPositionSaves, dbChars, msgRowid,
                   accepted>>

\* The controls _render gives the DM while the tracker is enabled
HasControls(k) == ClientRole(k) = "dm" /\ tracker[k].enabled

\* --- socket.js: the page's connection -------------------------------------

MaxSockets == 3
SocketIds == 1..MaxSockets

\* The module as it is loaded: ws = null (0), connected = false, gameId = null
\* (0), no reconnect timer; `state` holds the readyState of every WebSocket
\* the page has created ("none": not created yet).
NewSocketModule ==
    [ws |-> 0, connected |-> FALSE, gameId |-> 0, reconnectTimer |-> FALSE,
     state |-> [n \in SocketIds |-> "none"]]

\* WebSocket.close(): CONNECTING and OPEN go to CLOSING, the close event
\* follows; on a CLOSING or CLOSED socket it does nothing.
SocketClose(state, n) ==
    [state EXCEPT ![n] = IF @ \in {"connecting", "open"} THEN "closing" ELSE @]

\* The sockets that are connecting or open
LiveSockets(m) == {n \in SocketIds : m.state[n] \in {"connecting", "open"}}

\* The sockets the page has created
Created(m) == {n \in SocketIds : m.state[n] # "none"}

\* _open(): close and drop the socket ws refers to, then create one
open(m) ==
    LET closed == IF m.ws # 0 THEN SocketClose(m.state, m.ws) ELSE m.state
        n == Cardinality(Created(m)) + 1
    IN  [m EXCEPT !.state = [closed EXCEPT ![n] = "connecting"], !.ws = n]

\* A step of the page's socket module: nothing else moves.
SocketStep(type, n) ==
    /\ event' = Ev(type, 0, n, TRUE)
    /\ ServerIdle
    /\ UNCHANGED <<tracker, players, dmToolsActionMode, wire, ordVars>>

\* connect(gId)
SocketConnect ==
    /\ Cardinality(Created(sock)) < MaxSockets
    /\ sock' = open([sock EXCEPT !.gameId = 1])
    /\ SocketStep("connect", 0)

\* (variant: the reconnect timer is left running)
SocketDisconnect_KeepTimer ==
    /\ sock' = [sock EXCEPT
                  !.gameId = 0,
                  !.connected = FALSE,
                  !.state = IF sock.ws # 0 THEN SocketClose(@, sock.ws) ELSE @,
                  !.ws = 0]
    /\ SocketStep("disconnect", 0)

\* disconnect()
SocketDisconnect ==
    /\ sock' = [sock EXCEPT
                  !.gameId = 0,
                  !.connected = FALSE,
                  !.reconnectTimer = FALSE,
                  !.state = IF sock.ws # 0 THEN SocketClose(@, sock.ws) ELSE @,
                  !.ws = 0]
    /\ SocketStep("disconnect", 0)

\* The 'open' listener of socket n: without a gameId it closes the socket ws
\* refers to; with one it sends the auth message.
SocketOpened(n) ==
    /\ sock.state[n] = "connecting"
    /\ LET opened == [sock.state EXCEPT ![n] = "open"]
       IN  sock' = [sock EXCEPT
                      !.state = IF sock.gameId = 0 /\ sock.ws # 0
                                  THEN SocketClose(opened, sock.ws)
                                  ELSE opened]
    /\ SocketStep("socket_open", n)

\* The 'message' listener of socket n, for auth_ok
SocketAuthOk(n) ==
    /\ sock.state[n] = "open"
    /\ ~sock.connected
    /\ sock' = [sock EXCEPT !.connected = TRUE]
    /\ SocketStep("auth_ok", n)

\* The connection of socket n is lost, or the server closes it
SocketDropped(n) ==
    /\ sock.state[n] \in {"connecting", "open"}
    /\ sock' = [sock EXCEPT !.state[n] = "closing"]
    /\ SocketStep("socket_dropped", n)

\* The 'close' listener of socket n
SocketClosed(n) ==
    /\ sock.state[n] = "closing"
    /\ sock' = [sock EXCEPT
                  !.state[n] = "closed",
                  !.connected = FALSE,
                  !.ws = 0,
                  !.reconnectTimer = IF sock.gameId # 0 THEN TRUE ELSE @]
    /\ SocketStep("socket_close", n)

\* The reconnect timer's callback
ReconnectTimer ==
    /\ sock.reconnectTimer
    /\ Cardinality(Created(sock)) < MaxSockets
    /\ sock' = open([sock EXCEPT !.reconnectTimer = FALSE])
    /\ SocketStep("reconnect", 0)

CliInit ==
    /\ tracker = [k \in Conns |-> NewTracker(InitialPlayers)]
    /\ players = [k \in Conns |-> InitialPlayers]
    /\ dmToolsActionMode = [k \in Conns |-> FALSE]
    /\ wire = [up |-> <<>>, down |-> [k \in Conns |-> <<>>]]
    /\ sendSeq = [k \in Conns |-> 0]
    /\ recvLog = [k \in Conns |-> <<>>]
    /\ sock = NewSocketModule

\* The Action Mode checkbox of DMTools changes: main.js onActionModeToggle
ToggleActionMode(k) ==
    /\ ClientRole(k) = "dm"
    /\ Len(wire.up) < MaxInFlight
    /\ LET enabled == ~dmToolsActionMode[k]
       IN  /\ dmToolsActionMode' = [dmToolsActionMode EXCEPT ![k] = enabled]
           /\ IF enabled
                THEN /\ tracker' = [tracker EXCEPT
                           ![k] = setPlayers([@ EXCEPT !.enabled = TRUE], players[k])]
                     /\ sendTurnUpdate(k, TurnMsg(JTrue, <<>>, -1, NotArray))
                ELSE /\ tracker' = [tracker EXCEPT
                           ![k] = clearInitiativeRolls(
                                     setTurnState(@, TurnBroadcast(DisabledMsg)))]
                     /\ sendTurnUpdate(k, DisabledMsg)
           /\ event' = Ev("toggle", k, 0, enabled)
    /\ ServerIdle
    /\ UNCHANGED <<ordVars, sock>>
    /\ UNCHANGED players

\* The Start Turns button
StartTurns(k) ==
    /\ HasControls(k)
    /\ Len(tracker[k].order) = 0
    /\ Len(wire.up) < MaxInFlight
    /\ tracker' = [tracker EXCEPT ![k] = startTurns(@)]
    /\ sendTurnUpdate(k, emitChange(tracker'[k]))
    /\ event' = Ev("start", k, 0, TRUE)
    /\ ServerIdle
    /\ UNCHANGED <<ordVars, sock>>
    /\ UNCHANGED <<players, dmToolsActionMode>>

\* The Next and Prev buttons: _advanceTurn(1), _advanceTurn(-1). _render
\* disables Prev while activeIndex <= 0.
AdvanceTurn(k, direction) ==
    /\ HasControls(k)
    /\ direction = -1 => tracker[k].activeIndex > 0
    /\ Len(wire.up) < MaxInFlight
    /\ advanceTurn(tracker[k], direction).turnCounter <= MaxTurnCounter
    /\ tracker' = [tracker EXCEPT ![k] = advanceTurn(@, direction)]
    /\ IF Len(tracker[k].order) = 0
         THEN UNCHANGED wire
         ELSE sendTurnUpdate(k, emitChange(tracker'[k]))
    /\ event' = Ev("advance", k, direction, Len(tracker[k].order) # 0)
    /\ ServerIdle
    /\ UNCHANGED <<ordVars, sock>>
    /\ UNCHANGED <<players, dmToolsActionMode>>

\* An item is dropped on another one
Reorder(k, fromIdx, toIdx) ==
    /\ HasControls(k)
    /\ fromIdx # toIdx
    /\ fromIdx < RenderedItems(tracker[k])
    /\ toIdx < RenderedItems(tracker[k])
    /\ Len(wire.up) < MaxInFlight
    /\ tracker' = [tracker EXCEPT ![k] = reorder(@, fromIdx, toIdx)]
    /\ IF Len(tracker[k].order) = 0
         THEN UNCHANGED wire
         ELSE sendTurnUpdate(k, emitChange(tracker'[k]))
    /\ event' = Ev("reorder", k, fromIdx, Len(tracker[k].order) # 0)
    /\ ServerIdle
    /\ UNCHANGED <<ordVars, sock>>
    /\ UNCHANGED <<players, dmToolsActionMode>>

\* The End Action Mode button
EndActionMode(k) ==
    /\ HasControls(k)
    /\ Len(tracker[k].order) # 0
    /\ Len(wire.up) < MaxInFlight
    /\ tracker' = [tracker EXCEPT ![k] = endActionMode(@)]
    /\ sendTurnUpdate(k, DisabledMsg)
    /\ event' = Ev("end", k, 0, TRUE)
    /\ ServerIdle
    /\ UNCHANGED <<ordVars, sock>>
    /\ UNCHANGED <<players, dmToolsActionMode>>

\* socket.onTurnUpdate: a turn_update arrives from the server
OnTurnUpdate(k) ==
    /\ Len(wire.down[k]) > 0
    /\ Head(wire.down[k]).type = "turn_update"
    /\ LET msg == Head(wire.down[k])
           t == IF msg.enabled /\ ~tracker[k].enabled
                  THEN setPlayers(tracker[k], players[k])
                  ELSE tracker[k]
       IN  /\ tracker' = [tracker EXCEPT ![k] = setTurnState(t, msg)]
           /\ dmToolsActionMode' =
                 IF ~msg.enabled /\ ClientRole(k) = "dm"
                   THEN [dmToolsActionMode EXCEPT ![k] = FALSE]
                   ELSE dmToolsActionMode
    /\ wire' = [wire EXCEPT !.down[k] = Tail(@)]
    /\ event' = Ev("on_turn_update", k, 0, TRUE)
    /\ ServerIdle
    /\ UNCHANGED <<ordVars, sock>>
    /\ UNCHANGED players

\* socket.onCharacterRemoved: another client took a character off the game
OnCharacterRemoved(k, characterId) ==
    /\ players' = [players EXCEPT ![k] = SelectSeq(@, LAMBDA id : id # characterId)]
    /\ tracker' = [tracker EXCEPT ![k] = setPlayers(@, players'[k])]
    /\ event' = Ev("on_character_removed", k, characterId, characterId \in Range(players[k]))
    /\ ServerIdle
    /\ UNCHANGED <<ordVars, sock>>
    /\ UNCHANGED <<dmToolsActionMode, wire>>

\* socket.onInitiativeRoll: an initiative_roll arrives from the server
OnInitiativeRoll(k, characterId, roll) ==
    /\ tracker' = [tracker EXCEPT ![k] = setInitiativeRoll(@, characterId, roll)]
    /\ event' = Ev("on_initiative_roll", k, characterId, ~IsNullish(roll))
    /\ ServerIdle
    /\ UNCHANGED <<ordVars, sock>>
    /\ UNCHANGED <<players, dmToolsActionMode, wire>>

\* An initiative input of the tracker changes (handleSubmit): the roll is
\* kept, null included, and sent. The input is shown before the turns start,
\* to the DM for every character and to a player for their own.
SubmitRoll(k, characterId, roll) ==
    /\ tracker[k].enabled
    /\ Len(tracker[k].order) = 0
    /\ characterId \in Range(tracker[k].players)
    /\ ClientRole(k) = "dm" \/ CharOwner(characterId) = k
    /\ Len(wire.up) < MaxInFlight
    /\ tracker' = [tracker EXCEPT
                      ![k].initiativeRolls = MapSet(@, characterId, roll)]
    /\ wire' = IF connected(k)
                 THEN [wire EXCEPT !.up = Append(@,
                         [from |-> k,
                          msg |-> [type |-> "initiative_roll",
                                   characterId |-> characterId,
                                   roll |-> roll]])]
                 ELSE wire
    /\ event' = Ev("submit_roll", k, characterId, ~IsNullish(roll))
    /\ ServerIdle
    /\ UNCHANGED <<ordVars, sock>>
    /\ UNCHANGED <<players, dmToolsActionMode>>

\* The Sort by Initiative button, enabled once there is a roll:
\* _sortByInitiative, then main.js sends the initiative_sort and the
\* turn_update that carries the sorted list.
SortByInitiative(k) ==
    /\ HasControls(k)
    /\ Len(tracker[k].order) = 0
    /\ hasAnyRolls(tracker[k])
    /\ Len(wire.up) < MaxInFlight
    /\ tracker' = [tracker EXCEPT ![k] = sortByInitiative(@)]
    /\ wire' = IF connected(k)
                 THEN [wire EXCEPT !.up = @ \o
                         <<[from |-> k,
                            msg |-> [type |-> "initiative_sort",
                                     sortedCharIds |-> tracker'[k].players]],
                           [from |-> k, msg |-> SortedMsg(tracker'[k])]>>]
                 ELSE wire
    /\ event' = Ev("sort", k, 0, TRUE)
    /\ ServerIdle
    /\ UNCHANGED <<ordVars, sock>>
    /\ UNCHANGED <<players, dmToolsActionMode>>

\* socket.onInitiativeRoll: the next message for client k is an
\* initiative_roll
ReceiveInitiativeRoll(k) ==
    /\ Len(wire.down[k]) > 0
    /\ Head(wire.down[k]).type = "initiative_roll"
    /\ tracker' = [tracker EXCEPT
          ![k] = setInitiativeRoll(@, Head(wire.down[k]).characterId,
                                      Head(wire.down[k]).roll)]
    /\ wire' = [wire EXCEPT !.down[k] = Tail(@)]
    /\ event' = Ev("on_initiative_roll", k, Head(wire.down[k]).characterId,
                   ~IsNullish(Head(wire.down[k]).roll))
    /\ ServerIdle
    /\ UNCHANGED <<ordVars, sock>>
    /\ UNCHANGED <<players, dmToolsActionMode>>

\* socket.onInitiativeSort: the next message for client k is an
\* initiative_sort
OnInitiativeSort(k) ==
    /\ Len(wire.down[k]) > 0
    /\ Head(wire.down[k]).type = "initiative_sort"
    /\ tracker' = [tracker EXCEPT
          ![k].players = applySortOrder(@, Head(wire.down[k]).sortedCharIds)]
    /\ wire' = [wire EXCEPT !.down[k] = Tail(@)]
    /\ event' = Ev("on_initiative_sort", k, 0, TRUE)
    /\ ServerIdle
    /\ UNCHANGED <<ordVars, sock>>
    /\ UNCHANGED <<players, dmToolsActionMode>>

\* The socket of client k has opened and sent its auth message (socket.js
\* 49-57), which the server handles; the auth_ok is on its way to the client.
ServerAuth(k) ==
    /\ client[k] = 0
    /\ Len(wire.down[k]) < MaxInFlight
    /\ AuthBranch(k, [type |-> "auth", token |-> TokenOf(k), gameId |-> 1])
    /\ wire' = [wire EXCEPT !.down[k] = @ \o sent'[k]]
    /\ UNCHANGED <<tracker, players, dmToolsActionMode, ordVars, sock>>

\* The turn state of an auth_ok as the turn_update handlers get it
SnapshotMsg(turnState) ==
    [type |-> "turn_update", enabled |-> turnState.enabled,
     order |-> turnState.order, activeIndex |-> turnState.activeIndex,
     sortedPlayerOrder |-> NotArray]

\* The message listener of socket.js for auth_ok: a turn state that is not
\* null goes to the turn_update handlers (socket.onTurnUpdate of main.js).
OnAuthOk(k) ==
    /\ Len(wire.down[k]) > 0
    /\ Head(wire.down[k]).type = "auth_ok"
    /\ LET turnState == Head(wire.down[k]).turnState
       IN  IF Len(turnState) = 0
             THEN UNCHANGED <<tracker, dmToolsActionMode>>
             ELSE LET msg == SnapshotMsg(turnState[1])
                      t == IF msg.enabled /\ ~tracker[k].enabled
                             THEN setPlayers(tracker[k], players[k])
                             ELSE tracker[k]
                  IN  /\ tracker' = [tracker EXCEPT ![k] = setTurnState(t, msg)]
                      /\ dmToolsActionMode' =
                            IF ~msg.enabled /\ ClientRole(k) = "dm"
                              THEN [dmToolsActionMode EXCEPT ![k] = FALSE]
                              ELSE dmToolsActionMode
    /\ wire' = [wire EXCEPT !.down[k] = Tail(@)]
    /\ event' = Ev("on_auth_ok", k, 0, Len(Head(wire.down[k]).turnState) > 0)
    /\ ServerIdle
    /\ UNCHANGED <<ordVars, sock>>
    /\ UNCHANGED players

\* The server takes the next initiative_roll off the wire
ServerInitiativeRoll ==
    /\ Len(wire.up) > 0
    /\ \A k \in Conns : Len(wire.down[k]) < MaxInFlight
    /\ InitiativeRollBranch(Head(wire.up).from, Head(wire.up).msg)
    /\ wire' = [up |-> Tail(wire.up),
                down |-> [k \in Conns |-> wire.down[k] \o sent'[k]]]
    /\ UNCHANGED <<tracker, players, dmToolsActionMode, ordVars, sock>>

\* The server takes the next initiative_sort off the wire
ServerInitiativeSort ==
    /\ Len(wire.up) > 0
    /\ \A k \in Conns : Len(wire.down[k]) < MaxInFlight
    /\ InitiativeSortBranch(Head(wire.up).from, Head(wire.up).msg)
    /\ wire' = [up |-> Tail(wire.up),
                down |-> [k \in Conns |-> wire.down[k] \o sent'[k]]]
    /\ UNCHANGED <<tracker, players, dmToolsActionMode, ordVars, sock>>

\* The server takes the next turn_update off the wire; what it sends is on
\* its way to the clients.
ServerTurnUpdate ==
    /\ Len(wire.up) > 0
    /\ \A k \in Conns : Len(wire.down[k]) < MaxInFlight
    /\ TurnUpdateBranch(Head(wire.up).from, Head(wire.up).msg)
    /\ wire' = [up |-> Tail(wire.up),
                down |-> [k \in Conns |-> wire.down[k] \o sent'[k]]]
    /\ UNCHANGED <<tracker, players, dmToolsActionMode, ordVars, sock>>

\* _advanceTurn called on a tracker, whatever the buttons allow; the step
\* notes in `len` the activeIndex it started from.
ApplyAdvance(k, direction) ==
    /\ advanceTurn(tracker[k], direction).turnCounter <= MaxTurnCounter
    /\ tracker' = [tracker EXCEPT ![k] = advanceTurn(@, direction)]
    /\ event' = [Ev("advance", k, direction, Len(tracker[k].order) # 0)
                    EXCEPT !.len = tracker[k].activeIndex]
    /\ ServerIdle
    /\ UNCHANGED <<ordVars, sock>>
    /\ UNCHANGED <<players, dmToolsActionMode, wire>>

\* _reorder called on a tracker with two indices of its list; the step notes
\* fromIdx in `arg` and toIdx in `len`.
ApplyReorder(k, fromIdx, toIdx) ==
    /\ fromIdx # toIdx
    /\ fromIdx < Len(tracker[k].order)
    /\ toIdx < Len(tracker[k].order)
    /\ tracker' = [tracker EXCEPT ![k] = reorder(@, fromIdx, toIdx)]
    /\ event' = [Ev("apply_reorder", k, fromIdx, TRUE) EXCEPT !.len = toIdx]
    /\ ServerIdle
    /\ UNCHANGED <<ordVars, sock>>
    /\ UNCHANGED <<players, dmToolsActionMode, wire>>

\* The trackers _reorder is applied to: turns started for two or three
\* characters, in any order of theirs, with any of them active.
ReorderStates ==
    {[enabled |-> TRUE, order |-> o, activeIndex |-> i, turnCounter |-> 0,
      players |-> <<1, 2, 3>>, initiativeRolls |-> <<>>] :
        o \in {<<1, 2>>, <<2, 1>>, <<1, 2, 3>>, <<2, 3, 1>>, <<3, 1, 2>>},
        i \in {0, 1, 2}}

\* --- frames on the wire, in order -----------------------------------------

MaxSends == 2

\* What the clients send in the ordering model: a move of character 1, a
\* turn_update, a group chat message and a direct one to user 2
OrderMsgs ==
    {MoveMsg(1, 1, 3, 5), TurnMsg(JTrue, <<1, 2>>, 0, NotArray),
     ChatMsg(Str(0, 3, 0), Undef, "none"), ChatMsg(Str(0, 3, 0), 2, "none")}

\* socket.js send*: ws.send on the client's socket; the frame is numbered
\* with its place among the frames this client has sent.
ClientSend(k, m) ==
    /\ connected(k)
    /\ sendSeq[k] < MaxSends
    /\ wire' = [wire EXCEPT
                  !.up = Append(@, [from |-> k, msg |-> m, seq |-> sendSeq[k] + 1])]
    /\ sendSeq' = [sendSeq EXCEPT ![k] = @ + 1]
    /\ event' = Ev("client_send", k, sendSeq[k] + 1, TRUE)
    /\ ServerIdle
    /\ UNCHANGED <<tracker, players, dmToolsActionMode, recvLog, sock>>

\* The places on the wire of the frames connection k sent
FramesOf(k) == {i \in 1..Len(wire.up) : wire.up[i].from = k}

\* (variant: the socket hands over the newest frame first)
NextFrameOf_Latest(k) == CHOOSE i \in FramesOf(k) : \A j \in FramesOf(k) : i >= j

\* The frame ws.on('message') of connection k is called with next: the
\* oldest one of that connection (a socket delivers in order).
NextFrameOf(k) == CHOOSE i \in FramesOf(k) : \A j \in FramesOf(k) : i <= j

\* The branch of the message handler that msg.type selects
HandleFrame(c, m) ==
    \/ MoveBranch(c, m)
    \/ TurnUpdateBranch(c, m)
    \/ ChatBranch(c, m)

\* ws.on('message') runs for the next frame of connection k, to its end:
\* every ws.send of the handler is logged at the socket it was called on.
ServerReceives(k) ==
    /\ FramesOf(k) # {}
    /\ LET i == NextFrameOf(k)
           f == wire.up[i]
       IN  /\ HandleFrame(k, f.msg)
           /\ wire' = [wire EXCEPT !.up = RemoveAt(@, i - 1)]
           /\ recvLog' = [d \in Conns |->
                 recvLog[d] \o [n \in 1..Len(sent'[d]) |->
                                   [from |-> k, seq |-> f.seq, type |-> f.msg.type]]]
    /\ UNCHANGED <<tracker, players, dmToolsActionMode, sendSeq, sock>>

\* The trackers _advanceTurn is applied to: before the turns start, and in
\* each place of an order of one or two characters, in any counted round.
TrackerStates ==
    {[enabled |-> TRUE, order |-> o, activeIndex |-> i, turnCounter |-> n,
      players |-> InitialPlayers, initiativeRolls |-> <<>>] :
        o \in {<<1>>, <<1, 2>>, <<2, 1>>}, i \in {0, 1}, n \in 0..MaxTurnCounter}
      \cup {[enabled |-> TRUE, order |-> <<>>, activeIndex |-> -1, turnCounter |-> 0,
             players |-> InitialPlayers, initiativeRolls |-> <<>>]}

Init == SrvInit /\ CliInit

\* The server once every client has connected to game 1 and authenticated
JoinedInit ==
    /\ serverUp = TRUE
    /\ connState = [c \in Conns |-> "open"]
    /\ closeCode = [c \in Conns |-> 0]
    /\ client = [c \in Conns |-> c]
    /\ authTimer = [c \in Conns |-> "off"]
    /\ sessions = [c \in Conns |->
                      [conn |-> c, userId |-> c, gameId |-> 1, role |-> Membership(1, c)]]
    /\ rooms = MapSet(<<>>, 1, Conns)
    /\ roomTurnState = <<>>
    /\ pendingPositionSaves = <<>>
    /\ dbChars = [ch \in CharIds |-> [x |-> 0, y |-> 0, angle |-> 0]]
    /\ msgRowid = 0
    /\ sent = NoSends
    /\ inserted = <<>>
    /\ event = Ev("init", 0, 0, TRUE)
    /\ accepted = <<>>

\* ------------------------------------------------------------------------
\* Specifications of the server
\* ------------------------------------------------------------------------

\* Connections and authentication: every kind of token and game id.
Next ==
    \/ \E c \in Conns : Connection(c)
    \/ \E c \in Conns : PeerClose(c)
    \/ \E c \in Conns : CloseEvent(c)
    \/ \E c \in Conns : AuthTimeout(c)
    \/ \E c \in Conns, m \in AuthMsgs(AnyToken, AnyGameId) : HandleAuth(c, m)

Spec == Init /\ [][Next]_vars

\* The same with the timers running: a callback setTimeout has scheduled is
\* called once its 5 s have passed, unless clearTimeout removed it first.
SpecTimer == Init /\ [][Next]_vars /\ \A c \in Conns : WF_vars(AuthTimeout(c))

\* The position relay in game 1: its DM (user 1), the owner of character 1
\* (user 2) and another player (user 3). The auth timer is left out: what it
\* does to a connection, the 4005 close does as well.
NextMove ==
    \/ \E c \in Conns : Connection(c)
    \/ \E c \in Conns : PeerClose(c)
    \/ \E c \in Conns : CloseEvent(c)
    \/ \E c \in Conns, m \in AuthMsgs(ValidTokens, {1}) : HandleAuth(c, m)
    \/ \E c \in Conns, m \in MoveMsgs : HandleMove(c, m)

SpecMove == Init /\ [][NextMove]_vars

\* The turn relay in game 1: its DM (user 1) and its players.
NextTurnSrv ==
    \/ \E c \in Conns : Connection(c)
    \/ \E c \in Conns : PeerClose(c)
    \/ \E c \in Conns : CloseEvent(c)
    \/ \E c \in Conns, m \in AuthMsgs(ValidTokens, {1}) : HandleAuth(c, m)
    \/ \E c \in Conns, m \in TurnMsgs : HandleTurnUpdate(c, m)
    \/ \E c \in Conns, m \in SortMsgs : HandleInitiativeSort(c, m)

SpecTurnSrv == Init /\ [][NextTurnSrv]_vars

\* Rooms coming and going in both games: user 1 is the DM of game 1, user 3
\* a player of game 1 and the DM of game 2; the DMs switch action mode on and
\* off. The auth timer is left out: its 4001 close does to the rooms what any
\* other close does.
NextRooms ==
    \/ \E c \in Conns : Connection(c)
    \/ \E c \in Conns : PeerClose(c)
    \/ \E c \in Conns : CloseEvent(c)
    \/ \E c \in Conns, m \in AuthMsgs({TokenOf(1), TokenOf(3), Undef}, Games) :
          HandleAuth(c, m)
    \/ \E c \in Conns, m \in {TurnMsg(JTrue, <<1, 2>>, 0, NotArray),
                             TurnMsg(JFalse, <<>>, -1, NotArray)} :
          HandleTurnUpdate(c, m)

SpecRooms == Init /\ [][NextRooms]_vars

\* ws.on('message') from the raw frame on: JSON.parse, then the branch
\* msg.type selects
OnMessage(c, raw) ==
    IF ParseThrows(raw)
      THEN HandleNonJson(c)
      ELSE \/ HandleAuth(c, raw.value)
           \/ HandleMove(c, raw.value)
           \/ HandleTurnUpdate(c, raw.value)

\* Frames that are no JSON, among auth, move and turn_update frames of the DM
\* of game 1 and of a player, with the auth timer running.
RawFrames ==
    {RawText}
      \cup {RawJson(m) : m \in AuthMsgs({TokenOf(1), TokenOf(2), Undef}, {1})}
      \cup {RawJson(MoveMsg(1, 1, 3, 5)),
            RawJson(TurnMsg(JTrue, <<1, 2>>, 0, NotArray))}

NextRaw ==
    \/ \E c \in Conns : Connection(c)
    \/ \E c \in Conns : PeerClose(c)
    \/ \E c \in Conns : CloseEvent(c)
    \/ \E c \in Conns : AuthTimeout(c)
    \/ \E c \in Conns, raw \in RawFrames : OnMessage(c, raw)

SpecRaw == Init /\ [][NextRaw]_vars

\* The chat router in both games, with users 1 and 3: user 1 is the DM of
\* game 1 and no member of game 2, user 3 is a player of game 1 and the DM of
\* game 2.
NextChat ==
    \/ \E c \in Conns : Connection(c)
    \/ \E c \in Conns : PeerClose(c)
    \/ \E c \in Conns : CloseEvent(c)
    \/ \E c \in Conns, m \in AuthMsgs({TokenOf(1), TokenOf(3)}, Games) : HandleAuth(c, m)
    \/ \E c \in Conns, m \in ChatMsgs : HandleChatMessage(c, m)

SpecChat == Init /\ [][NextChat]_vars

\* The position batcher in game 1, fed by its DM (user 1) and by the owner of
\* character 1 (user 2), with the 3-second tick. Connections stay open: a
\* close touches neither pendingPositionSaves nor the characters table.
NextFlush ==
    \/ \E c \in Conns : Connection(c)
    \/ \E c \in Conns, m \in AuthMsgs({TokenOf(1), TokenOf(2)}, {1}) : HandleAuth(c, m)
    \/ \E c \in Conns, m \in FlushMoveMsgs : HandleMove(c, m)
    \/ \E c \in Conns, m \in FlushDragMsgs : HandleDmDrag(c, m)
    \/ flushPositionSaves

SpecFlush == Init /\ [][NextFlush]_vars

\* Drags from the DM of game 1 (user 1) and from a player of it (user 2),
\* with and without their fields, while sessions come and go.
NextDrag ==
    \/ \E c \in Conns : Connection(c)
    \/ \E c \in Conns : PeerClose(c)
    \/ \E c \in Conns : CloseEvent(c)
    \/ \E c \in Conns, m \in AuthMsgs({TokenOf(1), TokenOf(2)}, {1}) : HandleAuth(c, m)
    \/ \E c \in Conns, m \in DragMsgs : HandleDmDrag(c, m)

SpecDrag == Init /\ [][NextDrag]_vars

\* The DM of game 1 (user 1) and the DM of game 2 (user 3) move and drag the
\* characters, which are all of game 1, and the batcher flushes.
NextCross ==
    \/ \E c \in Conns : Connection(c)
    \/ \E c \in Conns, m \in AuthMsgs({TokenOf(1)}, {1}) \cup AuthMsgs({TokenOf(3)}, {2}) :
          HandleAuth(c, m)
    \/ \E c \in Conns : HandleMove(c, MoveMsg(1, 1, 3, 5))
    \/ \E c \in Conns : HandleDmDrag(c, DragMsg(2, 2, 4))
    \/ flushPositionSaves

SpecCross == Init /\ [][NextCross]_vars

\* One message of every type but auth
RosterMsg == [type |-> "character_removed", characterId |-> 1]
RollMsg == [type |-> "initiative_roll", characterId |-> 1, roll |-> 7]

\* The gate in front of the handlers: connections that send messages of every
\* type before and after the DM's auth message, and the 5-second timer.
NextGate ==
    \/ \E c \in Conns : Connection(c)
    \/ \E c \in Conns : PeerClose(c)
    \/ \E c \in Conns : CloseEvent(c)
    \/ \E c \in Conns : AuthTimeout(c)
    \/ \E c \in Conns, m \in AuthMsgs({TokenOf(1)}, {1}) : HandleAuth(c, m)
    \/ \E c \in Conns : HandleMove(c, MoveMsg(1, 1, 3, 5))
    \/ \E c \in Conns : HandleRoster(c, RosterMsg)
    \/ \E c \in Conns : HandleTurnUpdate(c, TurnMsg(JTrue, <<1, 2>>, 0, NotArray))
    \/ \E c \in Conns : HandleInitiativeRoll(c, RollMsg)
    \/ \E c \in Conns : HandleInitiativeSort(c, [type |-> "initiative_sort", sortedCharIds |-> <<2, 1>>])
    \/ \E c \in Conns : HandleChatMessage(c, ChatMsg(Str(0, 3, 0), Undef, "none"))
    \/ \E c \in Conns : HandleDmDrag(c, DragMsg(2, 1, 4))

SpecGate == Init /\ [][NextGate]_vars

\* Rolls for character 1 (of user 2), for character 2 (of user 3) and for no
\* character, with a number and without one
RollMsgs ==
    {[type |-> "initiative_roll", characterId |-> ch, roll |-> r] :
        ch \in {1, 2, Undef}, r \in {7, Undef}}

\* Initiative rolls from the DM of game 1 (user 1), from a player of it (user
\* 2) and from the DM of game 2 (user 3), while the DM of game 1 sets and
\* clears its turn state.
NextRoll ==
    \/ \E c \in Conns : Connection(c)
    \/ \E c \in Conns : PeerClose(c)
    \/ \E c \in Conns : CloseEvent(c)
    \/ \E c \in Conns, m \in AuthMsgs({TokenOf(1), TokenOf(2)}, {1})
                           \cup AuthMsgs({TokenOf(3)}, {2}) : HandleAuth(c, m)
    \/ \E c \in Conns : HandleTurnUpdate(c, TurnMsg(JTrue, <<1, 2>>, 1, NotArray))
    \/ \E c \in Conns, m \in RollMsgs : HandleInitiativeRoll(c, m)

SpecRoll == Init /\ [][NextRoll]_vars

\* Moves while the room has a turn state: the DM (user 1) starts and ends the
\* turns of characters 1 and 2, and the owner of character 2 (user 3) and the
\* DM move both characters.
NextTurnMove ==
    \/ \E c \in Conns : Connection(c)
    \/ \E c \in Conns : PeerClose(c)
    \/ \E c \in Conns : CloseEvent(c)
    \/ \E c \in Conns, m \in AuthMsgs({TokenOf(1), TokenOf(3)}, {1}) : HandleAuth(c, m)
    \/ \E c \in Conns, activeIndex \in {0, 1} :
          HandleTurnUpdate(c, TurnMsg(JTrue, <<1, 2>>, activeIndex, NotArray))
    \/ \E c \in Conns : HandleTurnUpdate(c, TurnMsg(JFalse, <<>>, -1, NotArray))
    \/ \E c \in Conns, ch \in CharIds : HandleMove(c, MoveMsg(ch, 1, 3, 5))

SpecTurnMove == Init /\ [][NextTurnMove]_vars

\* The turn tracker of the DM (client 1) and of a player, with the server
\* between them.
NextTurn ==
    \/ \E k \in Conns : ToggleActionMode(k)
    \/ \E k \in Conns : StartTurns(k)
    \/ \E k \in Conns, direction \in {1, -1} : AdvanceTurn(k, direction)
    \/ \E k \in Conns, fromIdx \in {0, 1}, toIdx \in {0, 1} : Reorder(k, fromIdx, toIdx)
    \/ \E k \in Conns : EndActionMode(k)
    \/ \E k \in Conns : OnTurnUpdate(k)
    \/ \E k \in Conns, characterId \in CharIds : OnCharacterRemoved(k, characterId)
    \/ ServerTurnUpdate

TurnInit == JoinedInit /\ CliInit

\* _advanceTurn on its own, from every tracker of TrackerStates whose index
\* is one of its order.
AdvanceInit ==
    /\ JoinedInit
    /\ tracker \in [Conns -> {t \in TrackerStates : t.activeIndex < Max(1, Len(t.order))}]
    /\ players = [k \in Conns |-> InitialPlayers]
    /\ dmToolsActionMode = [k \in Conns |-> ClientRole(k) = "dm"]
    /\ wire = [up |-> <<>>, down |-> [k \in Conns |-> <<>>]]
    /\ sendSeq = [k \in Conns |-> 0]
    /\ recvLog = [k \in Conns |-> <<>>]
    /\ sock = NewSocketModule

NextAdvance == \E k \in Conns, direction \in {1, -1} : ApplyAdvance(k, direction)

SpecAdvance == AdvanceInit /\ [][NextAdvance]_vars

SpecTurn == TurnInit /\ [][NextTurn]_vars

\* The rolls a client is sent in the models of the tracker
RollValues == {7, Undef}

\* Action mode from its start to its end, with initiative rolls arriving at
\* the clients.
NextEnd ==
    \/ \E k \in Conns : ToggleActionMode(k)
    \/ \E k \in Conns : StartTurns(k)
    \/ \E k \in Conns : EndActionMode(k)
    \/ \E k \in Conns : OnTurnUpdate(k)
    \/ \E k \in Conns, characterId \in CharIds, roll \in RollValues :
          OnInitiativeRoll(k, characterId, roll)
    \/ ServerTurnUpdate

SpecEnd == TurnInit /\ [][NextEnd]_vars

\* The DM's client (1) has joined game 1; the socket of the player's client
\* (2) has just opened and has not authenticated.
JoinInit ==
    /\ serverUp = TRUE
    /\ connState = [c \in Conns |-> "open"]
    /\ closeCode = [c \in Conns |-> 0]
    /\ client = [c \in Conns |-> IF c = 1 THEN 1 ELSE 0]
    /\ authTimer = [c \in Conns |-> IF c = 1 THEN "off" ELSE "pending"]
    /\ sessions = MapSet(<<>>, 1, [conn |-> 1, userId |-> 1, gameId |-> 1,
                                    role |-> Membership(1, 1)])
    /\ rooms = MapSet(<<>>, 1, {1})
    /\ roomTurnState = <<>>
    /\ pendingPositionSaves = <<>>
    /\ dbChars = [ch \in CharIds |-> [x |-> 0, y |-> 0, angle |-> 0]]
    /\ msgRowid = 0
    /\ accepted = <<>>
    /\ sent = NoSends
    /\ inserted = <<>>
    /\ event = Ev("init", 0, 0, TRUE)
    /\ CliInit

\* Action mode, rolls and turns of the DM while a player joins
NextJoin ==
    \/ \E k \in Conns : ToggleActionMode(k)
    \/ \E k \in Conns : StartTurns(k)
    \/ \E k \in Conns : EndActionMode(k)
    \/ \E k \in Conns, characterId \in CharIds, roll \in RollValues :
          SubmitRoll(k, characterId, roll)
    \/ \E k \in Conns : ReceiveInitiativeRoll(k)
    \/ \E k \in Conns : OnTurnUpdate(k)
    \/ \E k \in Conns : ServerAuth(k)
    \/ \E k \in Conns : OnAuthOk(k)
    \/ ServerInitiativeRoll
    \/ ServerTurnUpdate

SpecJoin == JoinInit /\ [][NextJoin]_vars

\* The rolls typed into the initiative inputs: numbers, and null for an
\* input that was emptied
TypedRolls == {7, 3, -3, Undef}

\* Action mode is on and has reached every client: the trackers are enabled
\* and show the players, no turn has started.
SortInit ==
    /\ JoinedInit
    /\ tracker = [k \in Conns |-> [NewTracker(InitialPlayers) EXCEPT !.enabled = TRUE]]
    /\ players = [k \in Conns |-> InitialPlayers]
    /\ dmToolsActionMode = [k \in Conns |-> ClientRole(k) = "dm"]
    /\ wire = [up |-> <<>>, down |-> [k \in Conns |-> <<>>]]
    /\ sendSeq = [k \in Conns |-> 0]
    /\ recvLog = [k \in Conns |-> <<>>]
    /\ sock = NewSocketModule

\* Rolls are entered, relayed and sorted by
NextSort ==
    \/ \E k \in Conns, characterId \in CharIds, roll \in TypedRolls :
          SubmitRoll(k, characterId, roll)
    \/ \E k \in Conns : SortByInitiative(k)
    \/ \E k \in Conns : ReceiveInitiativeRoll(k)
    \/ \E k \in Conns : OnInitiativeSort(k)
    \/ \E k \in Conns : OnTurnUpdate(k)
    \/ ServerInitiativeRoll
    \/ ServerInitiativeSort
    \/ ServerTurnUpdate

SpecSort == SortInit /\ [][NextSort]_vars

\* The page's socket module on its own: the game screen connects and
\* disconnects, sockets open, drop and close, the reconnect timer fires.
NextSocket ==
    \/ SocketConnect
    \/ SocketDisconnect
    \/ \E n \in SocketIds : SocketOpened(n)
    \/ \E n \in SocketIds : SocketAuthOk(n)
    \/ \E n \in SocketIds : SocketDropped(n)
    \/ \E n \in SocketIds : SocketClosed(n)
    \/ ReconnectTimer

SpecSocket == TurnInit /\ [][NextSocket]_vars

\* The same, with a reconnect timer that fires when it is left running
SpecSocketFair == TurnInit /\ [][NextSocket]_vars /\ WF_vars(ReconnectTimer)

\* _reorder on its own, from every tracker of ReorderStates whose index is
\* one of its order.
ReorderInit ==
    /\ JoinedInit
    /\ tracker \in [Conns -> {t \in ReorderStates : t.activeIndex < Len(t.order)}]
    /\ players = [k \in Conns |-> <<1, 2, 3>>]
    /\ dmToolsActionMode = [k \in Conns |-> ClientRole(k) = "dm"]
    /\ wire = [up |-> <<>>, down |-> [k \in Conns |-> <<>>]]
    /\ sendSeq = [k \in Conns |-> 0]
    /\ recvLog = [k \in Conns |-> <<>>]
    /\ sock = NewSocketModule

NextReorder ==
    \E k \in Conns, fromIdx \in {0, 1, 2}, toIdx \in {0, 1, 2} :
        ApplyReorder(k, fromIdx, toIdx)

SpecReorder == ReorderInit /\ [][NextReorder]_vars

\* The wire between two joined clients and the server: the clients send, the
\* server handles each connection's frames one at a time.
NextOrder ==
    \/ \E k \in Conns, m \in OrderMsgs : ClientSend(k, m)
    \/ \E k \in Conns : ServerReceives(k)

SpecOrder == TurnInit /\ [][NextOrder]_vars

\* ------------------------------------------------------------------------
\* Rooms and sessions
\* ------------------------------------------------------------------------

\* The connections whose close handler has not run and whose `client` is a
\* session of game g.
OpenAuthenticated(g) ==
    {c \in Conns : /\ connState[c] \in {"open", "closing"}
                   /\ client[c] # 0
                   /\ sessions[client[c]].gameId = g}

\* C1: rooms[g] holds as many Session entries as there are open, authenticated
\* connections of game g, and rooms has the key g exactly when there is one.
C1_RoomCountsConnections ==
    \A g \in Games :
        /\ Cardinality(RoomOf(g)) = Cardinality(OpenAuthenticated(g))
        /\ g \in DOMAIN rooms <=> OpenAuthenticated(g) # {}


\* ------------------------------------------------------------------------
\* Authority over the turn state
\* ------------------------------------------------------------------------

\* The session a step's handler ran for is a registered one that is not a DM.
FromNonDM(c) == c \in Conns /\ client[c] # 0 /\ sessions[client[c]].role # "dm"

\* C3: a turn_update or initiative_sort from a session whose role is not 'dm'
\* changes nothing the server holds and sends nothing to any connection.
C3_NonDMTurnNoEffect ==
    [][(event'.type \in {"turn_update", "initiative_sort"} /\ FromNonDM(event'.conn))
         => /\ sent' = NoSends
            /\ UNCHANGED <<roomTurnState, rooms, sessions, client, connState,
                           closeCode, pendingPositionSaves, dbChars, msgRowid>>]_vars

\* A player's turn_update was just dropped in a room that has a turn state
\* and another open session to hear of it.
C3_Witness ==
    /\ event.type = "turn_update"
    /\ FromNonDM(event.conn)
    /\ sessions[client[event.conn]].gameId \in DOMAIN roomTurnState
    /\ \E s \in RoomOf(sessions[client[event.conn]].gameId) :
          sessions[s].conn # event.conn /\ IsOpen(sessions[s].conn)


\* ------------------------------------------------------------------------
\* The position relay
\* ------------------------------------------------------------------------

\* C4: a move from a session that is neither a DM nor the owner the characters
\* table gives for the character (a wrong owner, an id with no row) is not
\* broadcast and leaves pendingPositionSaves as it was.
C4_MoveNeedsDMOrOwner ==
    [][(/\ event'.type = "move"
        /\ FromNonDM(event'.conn)
        /\ LookupOwner(event'.arg) # sessions[client[event'.conn]].userId)
         => /\ sent' = NoSends
            /\ pendingPositionSaves' = pendingPositionSaves]_vars

\* A player's move for a character of another user was just dropped while
\* another session of the room was open.
C4_Witness ==
    /\ event.type = "move"
    /\ ~event.ok
    /\ FromNonDM(event.conn)
    /\ event.arg \in CharIds
    /\ CharOwner(event.arg) # sessions[client[event.conn]].userId
    /\ \E s \in RoomOf(sessions[client[event.conn]].gameId) :
          sessions[s].conn # event.conn /\ IsOpen(sessions[s].conn)

\* Connection d is open and its session is in the room of connection c's.
OpenInRoomOf(d, c) ==
    /\ IsOpen(d)
    /\ client[d] # 0
    /\ sessions[client[d]].gameId = sessions[client[c]].gameId

\* C5: an accepted move reaches every other open session of the sender's room
\* with the characterId, x, y and angle it came with, and the sender's own
\* connection gets nothing.
C5_MoveToOthersNotSender ==
    [][\A c \in Conns, m \in MoveMsgs :
          (HandleMove(c, m) /\ client[c] # 0 /\ MoveAccepted(client[c], m))
            => /\ sent'[c] = <<>>
               /\ \A d \in Conns \ {c} :
                     OpenInRoomOf(d, c) =>
                        /\ sent'[d] # <<>>
                        /\ \A i \in DOMAIN sent'[d] :
                              sent'[d][i] = [type |-> "move",
                                             characterId |-> m.characterId,
                                             x |-> m.x, y |-> m.y,
                                             angle |-> m.angle]]_vars


\* ------------------------------------------------------------------------
\* The chat router
\* ------------------------------------------------------------------------

\* C6: a chat message with a recipientId reaches only connections whose session
\* is in the sender's room and belongs to the sender or to the recipient.
C6_DirectOnlyToSenderAndRecipient ==
    [][\A c \in Conns, m \in ChatMsgs :
          (HandleChatMessage(c, m) /\ client[c] # 0 /\ IsNumber(m.recipientId))
            => \A d \in Conns :
                  sent'[d] # <<>> =>
                     /\ client[d] # 0
                     /\ sessions[client[d]].gameId = sessions[client[c]].gameId
                     /\ sessions[client[d]].userId
                           \in {sessions[client[c]].userId, m.recipientId}]_vars

\* C7: a valid chat message without a recipientId is delivered exactly once to
\* every open session of the sender's room, the sender's included, and to no
\* session of another room.
C7_GroupOnceToRoom ==
    [][\A c \in Conns, m \in ChatMsgs :
          (/\ HandleChatMessage(c, m)
           /\ client[c] # 0
           /\ ChatValid(m)
           /\ m.recipientId = Undef)
            => \A d \in Conns :
                  IF OpenInRoomOf(d, c) THEN Len(sent'[d]) = 1
                                        ELSE sent'[d] = <<>>]_vars

\* The chat_message changed neither the messages table nor any connection.
ChatDropped == inserted' = <<>> /\ msgRowid' = msgRowid /\ sent' = NoSends

\* C8 as stated: a content that is empty or longer than 500 characters is
\* neither inserted nor delivered.
C8_LongOrEmptyDropped ==
    [][\A c \in Conns, m \in ChatMsgs :
          (/\ HandleChatMessage(c, m)
           /\ m.content.str
           /\ (StrLen(m.content) = 0 \/ StrLen(m.content) > MaxChatLen))
            => ChatDropped]_vars

\* C8, amended: a content that, once the whitespace around it is removed, is
\* empty or longer than 500 characters is neither inserted nor delivered.
C8_TrimmedLongOrEmptyDropped ==
    [][\A c \in Conns, m \in ChatMsgs :
          (/\ HandleChatMessage(c, m)
           /\ m.content.str
           /\ (m.content.core = 0 \/ m.content.core > MaxChatLen))
            => ChatDropped]_vars

\* A session's message of more than 500 characters was just dropped while
\* another session of its room was open and the messages table could take it.
C8_Witness ==
    /\ event.type = "chat_message"
    /\ ~event.ok
    /\ event.len > MaxChatLen
    /\ client[event.conn] # 0
    /\ IsOpen(event.conn)
    /\ inserted = <<>>
    /\ msgRowid < MaxMessages
    /\ \E d \in Conns \ {event.conn} : OpenInRoomOf(d, event.conn)


\* ------------------------------------------------------------------------
\* The position batcher
\* ------------------------------------------------------------------------

\* C9: after a flush tick pendingPositionSaves is empty and the characters
\* table has, for every character updated since the previous flush, the x and
\* y (and the angle, when it had one) of its last accepted update.
C9_FlushWritesLastAndClears ==
    [][event'.type = "flush"
         => /\ pendingPositionSaves' = <<>>
            /\ \A ch \in DOMAIN accepted \cap CharIds :
                  /\ dbChars'[ch].x = accepted[ch].x
                  /\ dbChars'[ch].y = accepted[ch].y
                  /\ ~IsNullish(accepted[ch].angle)
                        => dbChars'[ch].angle = accepted[ch].angle]_vars


\* ------------------------------------------------------------------------
\* The turn state
\* ------------------------------------------------------------------------

\* activeIndex is an index of order, or -1 when order is empty
IndexInOrder(order, activeIndex) ==
    IF Len(order) > 0 THEN activeIndex \in 0..(Len(order) - 1)
                      ELSE activeIndex = -1

\* C2: in the turn state the server stores for a room and in every client's
\* TurnTracker, activeIndex is within [0, len(order)-1] when order is not
\* empty and is -1 when it is.
C2_ActiveIndexInOrder ==
    /\ \A g \in DOMAIN roomTurnState :
          IndexInOrder(roomTurnState[g].order, roomTurnState[g].activeIndex)
    /\ \A k \in Conns : IndexInOrder(tracker[k].order, tracker[k].activeIndex)

\* The Active state: enabled, an order that is not empty, an index of it
Active(t) ==
    /\ t.enabled
    /\ Len(t.order) > 0
    /\ t.activeIndex \in 0..(Len(t.order) - 1)

\* C10: advance(+1) in the Active state goes from the last index to 0 and adds
\* exactly 1 to turnCounter; from any other index it adds 1 to activeIndex and
\* leaves turnCounter as it was.
C10_AdvanceWrapsAndCounts ==
    [][\A k \in Conns :
          (AdvanceTurn(k, 1) /\ Active(tracker[k]))
            => IF tracker[k].activeIndex = Len(tracker[k].order) - 1
                 THEN /\ tracker'[k].activeIndex = 0
                      /\ tracker'[k].turnCounter = tracker[k].turnCounter + 1
                 ELSE /\ tracker'[k].activeIndex = tracker[k].activeIndex + 1
                      /\ tracker'[k].turnCounter = tracker[k].turnCounter]_vars

\* The DM just advanced past the last of two characters: back at the first,
\* one round later.
C10_Witness ==
    /\ event.type = "advance"
    /\ event.arg = 1
    /\ event.ok
    /\ Active(tracker[event.conn])
    /\ Len(tracker[event.conn].order) = 2
    /\ tracker[event.conn].activeIndex = 0
    /\ tracker[event.conn].turnCounter >= 1


JsBool(b) == IF b THEN JTrue ELSE JFalse

\* The state or broadcast t has the enabled, order and activeIndex of message m
CarriesFieldsOf(t, m) ==
    /\ JsBool(t.enabled) = m.enabled
    /\ t.order = m.order
    /\ t.activeIndex = m.activeIndex

\* The turn_update m of connection c was stored for its room and sent, with
\* the fields of m, to every open session of the room.
StoredAndDelivered(c, m) ==
    /\ sessions[client[c]].gameId \in DOMAIN roomTurnState'
    /\ CarriesFieldsOf(roomTurnState'[sessions[client[c]].gameId], m)
    /\ \A d \in Conns :
          OpenInRoomOf(d, c) =>
             /\ sent'[d] # <<>>
             /\ \A i \in DOMAIN sent'[d] :
                   sent'[d][i].type = "turn_update" /\ CarriesFieldsOf(sent'[d][i], m)

Registered(c) ==
    {s \in DOMAIN sessions :
        sessions[s].conn = c /\ \E g \in DOMAIN rooms : s \in rooms[g]}

\* C13: a connection has at most one Session registered, and that Session is
\* in the session set of exactly one room, whatever auth messages it sent.
C13_OneSessionPerConnection ==
    \A c \in Conns :
        /\ Cardinality(Registered(c)) <= 1
        /\ \A s \in Registered(c) :
              Cardinality({g \in DOMAIN rooms : s \in rooms[g]}) = 1


\* ------------------------------------------------------------------------
\* Messages before authentication
\* ------------------------------------------------------------------------

\* The types of the messages that are not auth
NonAuthTypes ==
    {"move", "character_added", "character_removed", "turn_update",
     "initiative_roll", "initiative_sort", "chat_message", "dm_drag"}

\* The step handled a message that is not auth on a connection without Session
UnauthenticatedMessage ==
    /\ event'.type \in NonAuthTypes
    /\ event'.conn \in Conns
    /\ client[event'.conn] = 0

\* The step sent nothing and changed nothing the server keeps about rooms,
\* turns, positions and messages
NoResponseNoChange ==
    /\ sent' = NoSends
    /\ inserted' = <<>>
    /\ UNCHANGED <<client, sessions, rooms, roomTurnState, pendingPositionSaves,
                   dbChars, msgRowid>>

\* C14 as stated: a message that is not auth, on a connection that has not
\* authenticated, is ignored: nothing is sent, nothing changes and the
\* connection stays open.
C14_UnauthenticatedIgnored ==
    [][UnauthenticatedMessage
         => NoResponseNoChange /\ UNCHANGED <<connState, closeCode>>]_vars

\* C14, amended: such a message gets no response and changes no state of
\* rooms, turns, positions or messages, but an open connection is closed
\* with code 4005.
C14_UnauthenticatedClosed ==
    [][UnauthenticatedMessage
         => /\ NoResponseNoChange
            /\ IsOpen(event'.conn)
                  => /\ connState'[event'.conn] = "closing"
                     /\ closeCode'[event'.conn] = 4005
            /\ \A d \in Conns \ {event'.conn} :
                  connState'[d] = connState[d] /\ closeCode'[d] = closeCode[d]]_vars

\* A connection that never authenticated just sent a chat_message while the
\* DM's session was open: it is closing with 4005.
C14_Witness ==
    /\ event.type = "chat_message"
    /\ client[event.conn] = 0
    /\ connState[event.conn] = "closing"
    /\ closeCode[event.conn] = 4005
    /\ \E d \in Conns \ {event.conn} : IsOpen(d) /\ client[d] # 0


\* ------------------------------------------------------------------------
\* Authentication failures and their close codes
\* ------------------------------------------------------------------------

\* Which check of the auth branch rejects the message, in the order the
\* branch makes them; "none" when the message is accepted.
FailureClass(m) ==
    IF m.token = Undef THEN "missing_token"
    ELSE IF verifyToken(m.token) = 0 THEN "invalid_token"
    ELSE IF ParseGameId(m.gameId) = 0 THEN "invalid_room"
    ELSE IF Membership(ParseGameId(m.gameId), verifyToken(m.token)) = "none"
      THEN "not_member"
    ELSE "none"

\* The same with the token checks taken as one class, as verifyToken does
TokenBlindClass(m) ==
    IF FailureClass(m) \in {"missing_token", "invalid_token"}
      THEN "token_rejected"
      ELSE FailureClass(m)

\* The auth step registered no ClientInfo anywhere
NothingRegistered == UNCHANGED <<client, sessions, rooms>>

AllAuthMsgs == AuthMsgs(AnyToken, AnyGameId)

\* The step handled an auth message on open connection c and rejected it;
\* the event carries the code the branch computed for that message.
AuthRejected(c) ==
    /\ event'.type = "auth"
    /\ event'.conn = c
    /\ ~event'.ok
    /\ IsOpen(c)

FourCodes(class) ==
    CASE class = "missing_token" -> 4002
      [] class = "invalid_token" -> 4002
      [] class = "invalid_room" -> 4003
      [] class = "not_member" -> 4004

ThreeCodes(class) ==
    CASE class = "token_rejected" -> 4002
      [] class = "invalid_room" -> 4003
      [] class = "not_member" -> 4004

\* The code of every failing auth message is the code of its class, and
\* messages of different classes have different codes: with four classes
FourClassesFourCodes ==
    \A m \in AllAuthMsgs :
        FailureClass(m) # "none"
        => /\ AuthFailure(m) = FourCodes(FailureClass(m))
           /\ \A n \in AllAuthMsgs :
                 (FailureClass(n) \notin {"none", FailureClass(m)})
                 => AuthFailure(n) # AuthFailure(m)

\* and with the token checks as one class
ThreeClassesThreeCodes ==
    \A m \in AllAuthMsgs :
        TokenBlindClass(m) # "none"
        => /\ AuthFailure(m) = ThreeCodes(TokenBlindClass(m))
           /\ \A n \in AllAuthMsgs :
                 (TokenBlindClass(n) \notin {"none", TokenBlindClass(m)})
                 => AuthFailure(n) # AuthFailure(m)

\* C15 as stated: an auth message that fails closes the open connection with
\* the code of its failure class and registers no Session; the four classes
\* missing token, invalid or expired token, invalid room id and not a member
\* have four pairwise different codes.
C15_FourFailureCodes ==
    [][\A c \in Conns :
          AuthRejected(c)
          => /\ connState'[c] = "closing"
             /\ closeCode'[c] = event'.arg
             /\ NothingRegistered
             /\ FourClassesFourCodes]_vars

\* C15 amended: the failures have three codes, 4002 for a token that is
\* missing, invalid or expired, 4003 for an invalid room id, 4004 for a user
\* who is not a member; the three are pairwise different, a missing token and
\* an invalid one get the same code, and no failure registers a Session.
C15_ThreeFailureCodes ==
    [][\A c \in Conns :
          AuthRejected(c)
          => /\ connState'[c] = "closing"
             /\ closeCode'[c] = event'.arg
             /\ closeCode'[c] \in {4002, 4003, 4004}
             /\ NothingRegistered
             /\ ThreeClassesThreeCodes]_vars

\* Two connections were closed by failed auth messages of different classes,
\* the last one for a user who is not a member, and no Session exists.
C15_Witness ==
    /\ event.type = "auth"
    /\ ~event.ok
    /\ event.conn = 2
    /\ closeCode[2] = 4004
    /\ closeCode[1] = 4002
    /\ connState[2] = "closing"
    /\ sessions = <<>>
    /\ rooms = <<>>


\* ------------------------------------------------------------------------
\* The authentication timer
\* ------------------------------------------------------------------------

\* The step is the timer callback of connection c
TimerFires(c) ==
    /\ event'.type = "timeout"
    /\ event'.conn = c

\* C16: when the timer of an open connection that has not authenticated
\* fires, the connection is closed with code 4001; an open connection does
\* not stay open without authenticating for ever; a connection that has
\* authenticated has no timer left to fire and no timer step changes its
\* socket or its close code.
C16_TimeoutClosesUnauthenticated ==
    /\ [][\A c \in Conns :
            TimerFires(c)
            => IF client[c] = 0
                 THEN IsOpen(c) => /\ connState'[c] = "closing"
                                   /\ closeCode'[c] = 4001
                 ELSE UNCHANGED <<connState, closeCode>>]_vars
    /\ [](\A c \in Conns : client[c] # 0 => authTimer[c] # "pending")
    /\ [](\A c \in Conns : (IsOpen(c) /\ client[c] = 0) => authTimer[c] = "pending")
    /\ \A c \in Conns : (IsOpen(c) /\ client[c] = 0) ~> (~IsOpen(c) \/ client[c] # 0)

\* The timer of a connection that never authenticated fired and closed it
C16_Witness ==
    /\ event.type = "timeout"
    /\ event.ok
    /\ event.conn \in Conns
    /\ connState[event.conn] = "closing"
    /\ closeCode[event.conn] = 4001
    /\ client[event.conn] = 0


\* ------------------------------------------------------------------------
\* Order of the broadcasts of one sender
\* ------------------------------------------------------------------------

C18_FlushAllOrNothing ==
    [][(event'.type = "flush" /\ DOMAIN pendingPositionSaves # {})
         => IF event'.ok
              THEN /\ dbChars' = saveMany(pendingPositionSaves)
                   /\ pendingPositionSaves' = <<>>
              ELSE /\ dbChars' = dbChars
                   /\ pendingPositionSaves' = pendingPositionSaves]_vars

\* A flush failed on a batch of two entries, one that can be written and
\* differs from the table and one that cannot.
C18_Witness ==
    /\ event.type = "flush"
    /\ ~event.ok
    /\ DOMAIN pendingPositionSaves = {1, 2}
    /\ EntryThrows(pendingPositionSaves[1])
    /\ ~EntryThrows(pendingPositionSaves[2])
    /\ dbChars[2].x # pendingPositionSaves[2].x


\* ------------------------------------------------------------------------
\* After a failed flush
\* ------------------------------------------------------------------------

ValidChatHandled ==
    /\ event'.type = "chat_message"
    /\ event'.ok

\* C20: a chat_message that passes validation causes exactly one insert into
\* the messages table, whoever is connected, and every copy of the message
\* that is sent carries the id that insert was given.
C20_OneInsertIdDelivered ==
    [][ValidChatHandled
         => /\ Len(inserted') = 1
            /\ msgRowid' = msgRowid + 1
            /\ inserted'[1].id = msgRowid'
            /\ \A d \in Conns : \A i \in 1..Len(sent'[d]) :
                  /\ sent'[d][i].type = "chat_message"
                  /\ sent'[d][i].id = inserted'[1].id]_vars

\* A direct message to user 3 was stored while user 3 had no session, and
\* the sender's copy carries the id of the stored row.
C20_Witness ==
    /\ event.type = "chat_message"
    /\ event.ok
    /\ event.arg = 3
    /\ \A s \in DOMAIN sessions : sessions[s].userId # 3
    /\ Len(inserted) = 1
    /\ inserted[1].recipient_id = 3
    /\ Len(sent[event.conn]) >= 1
    /\ sent[event.conn][1].id = inserted[1].id
    /\ inserted[1].id = msgRowid


\* ------------------------------------------------------------------------
\* The room after its last session
\* ------------------------------------------------------------------------

\* C21: once the last session of a room has closed, the room and its turn
\* state are gone, and the auth_ok of a session that joins the game after
\* that carries turnState null.
C21_EmptyRoomForgotten ==
    /\ [](\A g \in Games :
            OpenAuthenticated(g) = {}
            => g \notin DOMAIN rooms /\ g \notin DOMAIN roomTurnState)
    /\ [][\A c \in Conns :
            (/\ event'.type = "auth"
             /\ event'.conn = c
             /\ event'.ok
             /\ IsOpen(c)
             /\ OpenAuthenticated(sessions'[client'[c]].gameId) = {})
            => sent'[c] = <<[type |-> "auth_ok", turnState |-> <<>>]>>]_vars


\* ------------------------------------------------------------------------
\* What a close leaves behind
\* ------------------------------------------------------------------------

\* C22: the step in which a connection closes cancels its auth timer and
\* leaves no Session of that connection in any room, and nothing is sent to
\* a closed connection afterwards.
C22_CloseCancelsAndRemoves ==
    /\ [][\A c \in Conns :
            (event'.type = "close" /\ event'.conn = c)
            => /\ authTimer'[c] # "pending"
               /\ Registered(c)' = {}]_vars
    /\ [](\A c \in Conns : connState[c] = "closed" => sent[c] = <<>>)


\* ------------------------------------------------------------------------
\* Moves during the turns
\* ------------------------------------------------------------------------

\* The step handled a move of a session that is not a DM, in a room whose
\* stored turn state is Active, for a character that is not the active one.
MoveOutOfTurn(c) ==
    /\ event'.type = "move"
    /\ event'.conn = c
    /\ FromNonDM(c)
    /\ sessions[client[c]].gameId \in DOMAIN roomTurnState
    /\ LET t == roomTurnState[sessions[client[c]].gameId]
       IN  /\ Active(t)
           /\ event'.arg # t.order[t.activeIndex + 1]

\* C23: while the room's turn state is Active, a move of a session that is not
\* a DM for a character other than order[activeIndex] is not applied: it is
\* not sent to anyone and not queued for the characters table.
C23_OnlyActiveCharacterMoves ==
    [][\A c \in Conns :
          MoveOutOfTurn(c)
          => /\ ~event'.ok
             /\ sent' = NoSends
             /\ UNCHANGED pendingPositionSaves]_vars


\* ------------------------------------------------------------------------
\* Reordering the turns
\* ------------------------------------------------------------------------

\* C24: _reorder(fromIdx, toIdx) on an Active tracker, with two different
\* indices of its order, gives the same list with the entry of fromIdx moved
\* to toIdx, and order[activeIndex] is the same character before and after.
C24_ReorderMovesAndKeepsActive ==
    [][\A k \in Conns :
          (event'.type = "apply_reorder" /\ event'.conn = k /\ Active(tracker[k]))
          => LET t == tracker[k]
                 u == tracker'[k]
                 fromIdx == event'.arg
                 toIdx == event'.len
             IN  /\ Len(u.order) = Len(t.order)
                 /\ u.order[toIdx + 1] = t.order[fromIdx + 1]
                 /\ RemoveAt(u.order, toIdx) = RemoveAt(t.order, fromIdx)
                 /\ Range(u.order) = Range(t.order)
                 /\ Active(u)
                 /\ u.order[u.activeIndex + 1] = t.order[t.activeIndex + 1]]_vars

\* The first of three characters was moved to the end while the second one
\* was active: the active character is now the first of the list.
C24_Witness ==
    \E k \in Conns :
        /\ event.type = "apply_reorder"
        /\ event.conn = k
        /\ event.arg = 0
        /\ event.len = 2
        /\ Len(tracker[k].order) = 3
        /\ tracker[k].activeIndex = 0


\* ------------------------------------------------------------------------
\* One live socket per page
\* ------------------------------------------------------------------------

\* C25: the page has at most one socket that is connecting or open, and when
\* it has one, ws refers to it and it is the most recently created one; the
\* close event of a socket that ws does not refer to neither changes ws nor
\* starts the reconnect timer.
C25_OneLiveSocket ==
    /\ [](/\ Cardinality(LiveSockets(sock)) <= 1
          /\ \A n \in LiveSockets(sock) :
                sock.ws = n /\ n = Cardinality(Created(sock)))
    /\ [][\A n \in SocketIds :
            (event'.type = "socket_close" /\ event'.arg = n /\ sock.ws # n)
            => /\ sock'.ws = sock.ws
               /\ sock'.reconnectTimer = sock.reconnectTimer]_vars


\* ------------------------------------------------------------------------
\* Rooms do not leak into each other
\* ------------------------------------------------------------------------

\* C26: whatever the server sends because of a message of session S goes to
\* sessions of S's room only: a connection that is sent something has its
\* session in the room of the sender's.
C26_DeliveriesStayInRoom ==
    [][\A c \in Conns :
          (event'.type \in NonAuthTypes /\ event'.conn = c /\ client[c] # 0)
          => \A d \in Conns :
                sent'[d] # <<>>
                => /\ client[d] # 0
                   /\ sessions[client[d]].gameId = sessions[client[c]].gameId]_vars


\* ------------------------------------------------------------------------
\* The end of action mode
\* ------------------------------------------------------------------------

\* order, activeIndex and the initiative rolls are cleared
Cleared(t) ==
    /\ t.order = <<>>
    /\ t.activeIndex = -1
    /\ t.initiativeRolls = <<>>

\* C27: after the DM ends action mode the DM's tracker has no order, index -1
\* and no initiative rolls; so has every client's tracker once it has handled
\* the disabled turn_update; and the turn state the server stores from that
\* turn_update is not enabled.
C27_EndClearsEverywhere ==
    [][/\ \A k \in Conns :
            (event'.type = "end" /\ event'.conn = k) => Cleared(tracker'[k])
       /\ \A k \in Conns :
            (/\ event'.type = "on_turn_update"
             /\ event'.conn = k
             /\ ~Head(wire.down[k]).enabled)
            => Cleared(tracker'[k])
       /\ (/\ event'.type = "turn_update"
           /\ event'.ok
           /\ Len(wire.up) > 0
           /\ ~Truthy(Head(wire.up).msg.enabled))
          => \A g \in DOMAIN roomTurnState' : ~roomTurnState'[g].enabled]_vars


\* ------------------------------------------------------------------------
\* Start Turns
\* ------------------------------------------------------------------------

\* The turn_update the client put on the wire last
LastSent == wire'.up[Len(wire'.up)].msg

\* What Start Turns does apart from the state it ends in
StartSetsOrder(k) ==
    /\ tracker'[k].order = tracker[k].players
    /\ tracker'[k].activeIndex = 0
    /\ tracker'[k].turnCounter = 0
    /\ Len(wire'.up) = Len(wire.up) + 1
    /\ LastSent = TurnMsg(JTrue, tracker[k].players, 0, NotArray)

\* C28: Start Turns sets order to the tracker's characters in the order they
\* are displayed in, activeIndex and turnCounter to 0, leaves the tracker in
\* the Active state, and emits a turn_update with enabled = true, that order
\* and that index.
C28_StartTurnsActive ==
    [][\A k \in Conns :
          (event'.type = "start" /\ event'.conn = k)
            => StartSetsOrder(k) /\ Active(tracker'[k])]_vars


\* ------------------------------------------------------------------------
\* Sort by Initiative
\* ------------------------------------------------------------------------

\* Character ch has a roll on tracker t
HasRoll(t, ch) ==
    ch \in DOMAIN t.initiativeRolls /\ ~IsNullish(t.initiativeRolls[ch])

\* ps holds the same characters as qs, each once
IsPermutation(ps, qs) ==
    /\ Len(ps) = Len(qs)
    /\ Range(ps) = Range(qs)

\* In the list of tracker t no roll is followed by a higher one, and no
\* character without a roll comes before one with a roll
SortedByInitiative(t) ==
    \A i, j \in DOMAIN t.players :
        i < j =>
          /\ (HasRoll(t, t.players[i]) /\ HasRoll(t, t.players[j]))
                => t.initiativeRolls[t.players[i]] >= t.initiativeRolls[t.players[j]]
          /\ HasRoll(t, t.players[j]) => HasRoll(t, t.players[i])

\* C29: Sort by Initiative leaves a permutation of the list in which rolls
\* never rise and no character without a roll stands before one that has a
\* roll; the server sends the sorted list the DM sent to every session of the
\* room, and a client that handles it shows its players in exactly that order.
C29_SortDescendingAndApplied ==
    [][/\ \A k \in Conns :
            (event'.type = "sort" /\ event'.conn = k)
              => /\ IsPermutation(tracker'[k].players, tracker[k].players)
                 /\ SortedByInitiative(tracker'[k])
       /\ (event'.type = "initiative_sort" /\ event'.ok)
            => \A c \in Conns :
                  sent'[c] = <<[type |-> "initiative_sort",
                                sortedCharIds |-> Head(wire.up).msg.sortedCharIds]>>
       /\ \A k \in Conns :
            (event'.type = "on_initiative_sort" /\ event'.conn = k)
              => tracker'[k].players = Head(wire.down[k]).sortedCharIds]_vars


\* ------------------------------------------------------------------------
\* Initiative rolls
\* ------------------------------------------------------------------------

\* The session the message of this step came from
RollSender == client[event'.conn]

\* This step handles an initiative_roll of a session
RollFromSession == event'.type = "initiative_roll" /\ RollSender # 0

\* The character of the roll is given, and the session is a DM or its user
\* owns that character
MayRoll ==
    /\ event'.arg # Undef
    /\ \/ sessions[RollSender].role = "dm"
       \/ /\ event'.arg \in CharIds
          /\ CharOwner(event'.arg) = sessions[RollSender].userId

\* The connections whose session is in the sender's room and whose socket
\* is open (a socket that is closing can be sent nothing)
RollRoom ==
    {d \in Conns : /\ client[d] # 0
                   /\ IsOpen(d)
                   /\ sessions[client[d]].gameId = sessions[RollSender].gameId}

\* The roll of this step is sent to every session of the sender's room, the
\* sender included
RollBroadcast ==
    /\ IsOpen(event'.conn) => event'.conn \in RollRoom
    /\ \A d \in RollRoom :
          /\ Len(sent'[d]) >= 1
          /\ \A i \in DOMAIN sent'[d] :
                /\ sent'[d][i].type = "initiative_roll"
                /\ sent'[d][i].characterId = event'.arg
                /\ sent'[d][i].userId = sessions[RollSender].userId

\* C30: an initiative_roll of a session is broadcast to every session of its
\* room, the sender included, exactly when its character is given and the
\* session is a DM or its user owns the character; otherwise nothing is sent
\* and nothing changes; and no roll changes the turn state of any room.
C30_RollBroadcastIffAllowed ==
    [][RollFromSession
         => /\ IF MayRoll
                 THEN RollBroadcast
                 ELSE /\ sent' = NoSends
                      /\ UNCHANGED <<serverUp, connState, closeCode, client,
                                     authTimer, sessions, rooms,
                                     pendingPositionSaves, dbChars, msgRowid>>
            /\ roomTurnState' = roomTurnState]_vars

\* A player just rolled for their own character while the room's turn state
\* was enabled, and the DM and the player were both sent the roll.
C30_Witness ==
    /\ event.type = "initiative_roll"
    /\ client[event.conn] # 0
    /\ sessions[client[event.conn]].role = "player"
    /\ CharOwner(event.arg) = sessions[client[event.conn]].userId
    /\ Len(sent[event.conn]) >= 1
    /\ \E d \in Conns \ {event.conn} :
          /\ client[d] # 0
          /\ sessions[client[d]].role = "dm"
          /\ Len(sent[d]) >= 1
    /\ 1 \in DOMAIN roomTurnState
    /\ roomTurnState[1].enabled


\* ------------------------------------------------------------------------
\* The turn snapshot of auth_ok
\* ------------------------------------------------------------------------

\* Nothing is on its way to the server or to a client
WireQuiet == Len(wire.up) = 0 /\ \A k \in Conns : Len(wire.down[k]) = 0

\* The rolls tracker t shows, character by character
RollView(t) ==
    [ch \in CharIds |-> IF ch \in DOMAIN t.initiativeRolls
                          THEN t.initiativeRolls[ch] ELSE Undef]

\* Trackers t and u show the same enabled, order and activeIndex
SameTurn(t, u) ==
    /\ t.enabled = u.enabled
    /\ t.order = u.order
    /\ t.activeIndex = u.activeIndex

\* C31: when a client has handled its auth_ok and nothing else is in flight,
\* its tracker holds the same enabled, order, activeIndex and initiative
\* rolls as the tracker of every session that was connected before.
C31_JoinerHoldsRoomState ==
    [][\A k \in Conns :
          (event'.type = "on_auth_ok" /\ event'.conn = k /\ WireQuiet')
            => \A d \in Conns \ {k} :
                  connected(d) => /\ SameTurn(tracker'[k], tracker'[d])
                                  /\ RollView(tracker'[k]) = RollView(tracker'[d])]_vars


\* ------------------------------------------------------------------------
\* Clients and server agree on the turn state
\* ------------------------------------------------------------------------

\* roomTurnState.get(gameId), or the state of a room that has none
StoredTurn(gameId) ==
    IF gameId \in DOMAIN roomTurnState
      THEN roomTurnState[gameId]
      ELSE [enabled |-> FALSE, order |-> <<>>, activeIndex |-> -1]

\* Every client has handled the same character_removed messages
RosterQuiet == \A k, d \in Conns : players[k] = players[d]

\* C32: once nothing is in flight, the tracker of every open session shows
\* the enabled, order and activeIndex the server stores for the room.
C32_ViewsAgreeWhenQuiet ==
    (WireQuiet /\ RosterQuiet) =>
      \A k \in Conns :
         connected(k) => SameTurn(tracker[k], StoredTurn(sessions[client[k]].gameId))


\* ------------------------------------------------------------------------
\* dm_drag
\* ------------------------------------------------------------------------

\* The drag has its three fields
DragComplete(m) == m.characterId # Undef /\ m.x # Undef /\ m.y # Undef

\* C33: a dm_drag with characterId, x and y from a DM session is sent, with
\* those three fields, to every other open session of the room, and sets
\* pendingPositionSaves[characterId] to {x, y, angle: null}; a dm_drag from a
\* session that is not a DM, or with a field missing, sends nothing and leaves
\* pendingPositionSaves as it was.
C33_DragRelayedAndQueued ==
    [][\A c \in Conns, m \in DragMsgs :
          (HandleDmDrag(c, m) /\ client[c] # 0)
            => IF sessions[client[c]].role = "dm" /\ DragComplete(m)
                 THEN /\ \A d \in Conns \ {c} :
                            OpenInRoomOf(d, c) =>
                               /\ sent'[d] # <<>>
                               /\ \A i \in DOMAIN sent'[d] :
                                     sent'[d][i] = [type |-> "dm_drag",
                                                    characterId |-> m.characterId,
                                                    x |-> m.x, y |-> m.y]
                      /\ pendingPositionSaves' =
                            [ch \in DOMAIN pendingPositionSaves \cup {m.characterId} |->
                                IF ch = m.characterId
                                  THEN [x |-> m.x, y |-> m.y, angle |-> Undef]
                                  ELSE pendingPositionSaves[ch]]
                 ELSE /\ sent' = NoSends
                      /\ pendingPositionSaves' = pendingPositionSaves]_vars

\* The DM just dragged a character that already had a queued position, and a
\* player's open session was sent the drag.
C33_Witness ==
    /\ event.type = "dm_drag"
    /\ event.ok
    /\ Cardinality(DOMAIN pendingPositionSaves) = 2
    /\ pendingPositionSaves[event.arg].angle = Undef
    /\ \E d \in Conns \ {event.conn} :
          /\ IsOpen(d)
          /\ client[d] # 0
          /\ sessions[client[d]].role = "player"
          /\ Len(sent[d]) >= 1


\* ------------------------------------------------------------------------
\* Positions stay within the game
\* ------------------------------------------------------------------------

\* C34: a move or dm_drag the server accepts from a session is for a
\* character of the game the session is in.
C34_PositionsOfOwnGame ==
    [][(event'.type \in {"move", "dm_drag"} /\ event'.ok)
         => /\ event'.arg \in CharIds
            /\ CharGame(event'.arg) = sessions[client[event'.conn]].gameId]_vars


\* ------------------------------------------------------------------------
\* A failing write
\* ------------------------------------------------------------------------

\* C35: a flush that throws sends nothing to any client, closes no
\* connection, leaves rooms and roomTurnState as they were, and the server
\* goes on handling messages and ticks.
C35_FlushFailureContained ==
    [][(event'.type = "flush" /\ ~event'.ok)
         => /\ sent' = NoSends
            /\ UNCHANGED <<connState, closeCode, rooms, roomTurnState>>
            /\ serverUp']_vars


\* ------------------------------------------------------------------------
\* Reconnecting
\* ------------------------------------------------------------------------

\* The page can still create a socket in the model
SocketsLeft == Cardinality(Created(sock)) < MaxSockets

\* C36: a close event leaves the reconnect timer running exactly when gameId
\* is set; the timer then fires and opens a socket unless disconnect() comes
\* first; disconnect() clears gameId and the timer, and while gameId is
\* cleared no timer runs and only connect() creates a socket.
C36_ReconnectUnlessDisconnected ==
    /\ [](sock.gameId = 0 => ~sock.reconnectTimer)
    /\ [][event'.type = "socket_close"
            => (sock'.reconnectTimer <=> sock.gameId # 0)]_vars
    /\ [][event'.type = "disconnect"
            => sock'.gameId = 0 /\ ~sock'.reconnectTimer]_vars
    /\ [][Created(sock') # Created(sock)
            => \/ event'.type = "connect"
               \/ event'.type = "reconnect" /\ sock.gameId # 0]_vars
    /\ (sock.reconnectTimer /\ SocketsLeft)
          ~> \/ event.type = "reconnect" /\ Cardinality(LiveSockets(sock)) >= 1
             \/ event.type = "disconnect"
             \/ ~SocketsLeft

\* The reconnect timer has just opened a socket after a close event, and a
\* disconnect() has been handled with a timer running before.
C36_Witness ==
    /\ event.type = "reconnect"
    /\ sock.gameId # 0
    /\ ~sock.reconnectTimer
    /\ \E n \in SocketIds : sock.state[n] = "closed"
    /\ sock.state[sock.ws] = "connecting"


\* ------------------------------------------------------------------------
\* Moves with a missing field
\* ------------------------------------------------------------------------

\* One of the four fields of the move is null or undefined
MoveIncomplete(m) ==
    IsNullish(m.characterId) \/ IsNullish(m.x) \/ IsNullish(m.y) \/ IsNullish(m.angle)

\* C37: a move from a session with characterId, x, y or angle missing sends
\* nothing (no relay, no error frame), leaves pendingPositionSaves as it was
\* and leaves the connection and the rooms as they were.
C37_IncompleteMoveDropped ==
    [][\A c \in Conns, m \in MoveMsgs :
          (/\ event'.type = "move"
           /\ event'.conn = c
           /\ client[c] # 0
           /\ MoveIncomplete(m)
           /\ HandleMove(c, m))
            => /\ sent' = NoSends
               /\ pendingPositionSaves' = pendingPositionSaves
               /\ UNCHANGED <<connState, closeCode, client, sessions, rooms,
                              dbChars, serverUp>>]_vars

\* The DM's move without a characterId was just dropped while a position was
\* queued and a player's session of the room was open.
C37_Witness ==
    /\ event.type = "move"
    /\ ~event.ok
    /\ event.arg = Undef
    /\ client[event.conn] # 0
    /\ sessions[client[event.conn]].role = "dm"
    /\ IsOpen(event.conn)
    /\ DOMAIN pendingPositionSaves # {}
    /\ \E d \in Conns \ {event.conn} : OpenInRoomOf(d, event.conn)


\* ------------------------------------------------------------------------
\* Rooms and their turn state
\* ------------------------------------------------------------------------

\* C38: rooms holds no empty set, and every key of roomTurnState is a key of
\* rooms.
C38_NoEmptyRoomNoOrphanTurnState ==
    /\ \A g \in DOMAIN rooms : rooms[g] # {}
    /\ DOMAIN roomTurnState \subseteq DOMAIN rooms

\* The last session of game 1 has just gone, while game 2 has a room and a
\* stored turn state.
C38_Witness ==
    /\ event.type = "close"
    /\ DOMAIN rooms = {2}
    /\ DOMAIN roomTurnState = {2}


\* ------------------------------------------------------------------------
\* What a flush writes
\* ------------------------------------------------------------------------

\* The entry pendingPositionSaves holds for the character came from a dm_drag
\* (angle: null); a move is not enqueued without an angle.
LastWasDrag(ch) == IsNullish(pendingPositionSaves[ch].angle)

\* C39: a flush leaves the stored angle of a character whose queued entry came
\* from a dm_drag as it was, and stores the x, y and angle of a character whose
\* queued entry came from a move.
C39_FlushAngleByKind ==
    [][(event'.type = "flush" /\ DOMAIN pendingPositionSaves # {})
         => \A ch \in CharIds \cap DOMAIN pendingPositionSaves :
               IF LastWasDrag(ch)
                 THEN dbChars'[ch].angle = dbChars[ch].angle
                 ELSE dbChars'[ch] = [x |-> pendingPositionSaves[ch].x,
                                      y |-> pendingPositionSaves[ch].y,
                                      angle |-> pendingPositionSaves[ch].angle]]_vars


\* ------------------------------------------------------------------------
\* Frames that are not JSON
\* ------------------------------------------------------------------------

\* C40: a frame that is not JSON changes nothing on the server (connections,
\* sessions, rooms, turn state, queued positions, tables), sends nothing, and
\* leaves the auth timer as it was: running on a connection that has not
\* authenticated, whose client stays unset.
C40_NonJsonIgnored ==
    [][event'.type = "non_json"
         => /\ sent' = NoSends
            /\ inserted' = <<>>
            /\ UNCHANGED <<serverUp, connState, closeCode, client, authTimer,
                           sessions, rooms, roomTurnState, pendingPositionSaves,
                           dbChars, msgRowid>>]_vars

\* A frame that is not JSON was just handled on an open connection that has
\* not authenticated and whose auth timer is running, while a DM's session
\* has a room, a stored turn state and a queued position.
C40_Witness ==
    /\ event.type = "non_json"
    /\ IsOpen(event.conn)
    /\ client[event.conn] = 0
    /\ authTimer[event.conn] = "pending"
    /\ 1 \in DOMAIN rooms
    /\ 1 \in DOMAIN roomTurnState
    /\ DOMAIN pendingPositionSaves # {}

=============================================================================
